---- MODULE Spec2Model ----
(***************************************************************************)
(* A model of the REMUS .RLF reader (src/remus_rlf.py): the frame scanner  *)
(* parse_raw_records, the timestamp normaliser unwrap_timestamps, the      *)
(* record decoders and the driver parse_rlf; and of the PD0 ensemble       *)
(* reader parse_adc (src/remus_adcp.py).                                   *)
(*                                                                         *)
(* Buffers are sequences of bytes 0..255.  Python offsets are 0-based; the *)
(* operator At(d, i) reads the byte the code calls d[i].                   *)
(***************************************************************************)
EXTENDS Integers, Sequences, FiniteSets, TLC

VARIABLES
  data,      \* the file's bytes (parse_rlf: data = f.read())
  chunks,    \* how the input buffer was assembled (provenance of data; never read by the code)
  decode,    \* parse_rlf's decode argument
  pc,        \* position of the call: "scan", "dispatch", "finish", "done", "raised";
             \* "unwrap", "unwrap_loop", "unwrapped" for unwrap_timestamps on its own;
             \* "stamp_scan", "stamped" for _stamp_by_position on its own;
             \* "adc_scan", "adc_scanned", "adc_fill", "adc_done" for parse_adc
  pos,       \* parse_raw_records: cursor
  records,   \* parse_raw_records: dict {rtype: [payload, ...]}
  rkeys,     \* insertion order of the keys of records (Python dicts iterate in it)
  emitted,   \* log of the frames appended to records, in emission order: where each began,
             \* its header fields and the payload appended
  k,         \* parse_rlf: number of items of raw.items() already dispatched
  result,    \* parse_rlf: result dict
  summary,   \* parse_rlf: summary dict
  ret,       \* the value parse_rlf returned
  error,     \* the exception that ended the call, with the place that raised it
  ts_raw,    \* unwrap_timestamps: the argument
  ts,        \* unwrap_timestamps: the working array
  ui,        \* unwrap_timestamps: the loop index i
  t_out,     \* unwrap_timestamps: the returned array
  target_type,  \* _stamp_by_position: the argument target_type
  ref_type,     \* _stamp_by_position: the argument ref_type
  ref_t_hrs,    \* _stamp_by_position: the argument ref_t_hrs
  ref_pos,      \* _stamp_by_position: offsets of the reference-type frames found so far
  target_pos,   \* _stamp_by_position: offsets of the target-type frames found so far
  stamped,      \* _stamp_by_position: the returned array
  ensembles,    \* parse_adc: offsets of the ensembles located in pass 1
  fixed_leader, \* parse_adc: the decoded fixed leader, NoLeader while None
  out,          \* parse_adc: the output dict
  ei            \* parse_adc: number of ensembles pass 2 has processed

\* The variables of a call of unwrap_timestamps on its own.
uvars == <<ts_raw, ts, ui, t_out>>

\* The variables of a call of _stamp_by_position on its own.
svars == <<target_type, ref_type, ref_t_hrs, ref_pos, target_pos, stamped>>

\* The variables of a call of parse_adc.
avars == <<ensembles, fixed_leader, out, ei>>

\* The variables of a call of parse_rlf.
rvars == <<data, chunks, decode, pos, records, rkeys, emitted, k, result, summary, ret>>

vars == <<data, chunks, decode, pc, pos, records, rkeys, emitted, k, result,
          summary, ret, error, ts_raw, ts, ui, t_out,
          target_type, ref_type, ref_t_hrs, ref_pos, target_pos, stamped,
          ensembles, fixed_leader, out, ei>>

(***************************************************************************)
(* Bounds of the model.                                                    *)
(***************************************************************************)
MaxChunks == 3

MaxRecs == 3

MaxTs == 3

MaxFrames == 3

MaxEns == 3
MaxMasked == 2
MaxTables == 2
MaxScans == 2

----------------------------------------------------------------------------
(***************************************************************************)
(* Bytes, slices and little-endian fields.                                 *)
(***************************************************************************)
HEADER_SIZE == 8

MAGIC == <<235, 144>>

NoError == [kind |-> "none", at |-> "none"]

Raise(kind, at) == [kind |-> kind, at |-> at]

\* fixed_leader = None
NoLeader == [none |-> TRUE]

At(d, i) == d[i + 1]

InBuf(d, i) == i >= 0 /\ i < Len(d)

Min(a, b) == IF a <= b THEN a ELSE b

Max(a, b) == IF a >= b THEN a ELSE b

\* d[a:b] for 0 <= a: Python clips both ends to the buffer and never raises.
Slice(d, a, b) ==
  LET lo == Min(a, Len(d))
      hi == Min(b, Len(d))
  IN  IF hi <= lo THEN << >> ELSE [i \in 1..(hi - lo) |-> d[lo + i]]

\* struct.unpack_from('<H', d, off)[0]; the caller checks CanUnpack first.
U16(d, off) == At(d, off) + 256 * At(d, off + 1)

\* struct.unpack_from raises struct.error unless width bytes lie at off.
CanUnpack(d, off, width) == off + width <= Len(d)

RECURSIVE Concat(_)
Concat(ss) == IF ss = << >> THEN << >> ELSE Head(ss) \o Concat(Tail(ss))

SeqsUpTo(S, n) == UNION {[1..m -> S] : m \in 0..n}

Put(m, key, v) == [x \in (DOMAIN m) \cup {key} |-> IF x = key THEN v ELSE m[x]]

----------------------------------------------------------------------------
(***************************************************************************)
(* parse_raw_records.                                                      *)
(***************************************************************************)
\* end = len(data) - HEADER_SIZE: the loop runs while pos < end.
ScanEndShort(d) == Len(d) - 2

ScanEnd(d) == Len(d) - HEADER_SIZE

\* if payload_end <= len(data)
FrameAcceptedAlways(d, payload_end) == TRUE

FrameAccepted(d, payload_end) == payload_end <= Len(d)

\* The header fields struct.unpack_from('<HHH', data, pos + 2) yields.
Header(d, p) ==
  [cksum |-> U16(d, p + 2), rtype |-> U16(d, p + 4), plen |-> U16(d, p + 6)]

\* records.setdefault(rtype, []).append(payload)
Append1(recs, rtype, payload) ==
  Put(recs, rtype, IF rtype \in DOMAIN recs THEN Append(recs[rtype], payload)
                                             ELSE <<payload>>)

\* A frame is emitted only when the checksum field passes a test.
EmitsAtChecked(d, p) ==
  /\ FrameAccepted(d, p + HEADER_SIZE + Header(d, p).plen)
  /\ Header(d, p).cksum = 0

\* The frame found at p is emitted (the header is readable and the marker matched).
EmitsAt(d, p) == FrameAccepted(d, p + HEADER_SIZE + Header(d, p).plen)

\* One iteration of the while loop on the scanner state
\* s = [pos, records, rkeys, emitted, error].
ScanIter(d, s) ==
  LET p == s.pos
      advance == [s EXCEPT !.pos = p + 1]
  IN
  IF ~InBuf(d, p) THEN [s EXCEPT !.error = Raise("IndexError", "parse_raw_records")]
  ELSE IF At(d, p) # MAGIC[1] THEN advance
  ELSE IF ~InBuf(d, p + 1) THEN [s EXCEPT !.error = Raise("IndexError", "parse_raw_records")]
  ELSE IF At(d, p + 1) # MAGIC[2] THEN advance
  ELSE IF ~CanUnpack(d, p + 2, 6) THEN [s EXCEPT !.error = Raise("struct.error", "parse_raw_records")]
  ELSE
    LET h == Header(d, p)
        payload_end == p + HEADER_SIZE + h.plen
    IN  IF EmitsAt(d, p)
        THEN [pos     |-> payload_end,
              records |-> Append1(s.records, h.rtype, Slice(d, p + HEADER_SIZE, payload_end)),
              rkeys   |-> IF h.rtype \in DOMAIN s.records THEN s.rkeys
                                                         ELSE Append(s.rkeys, h.rtype),
              emitted |-> Append(s.emitted,
                                 [start |-> p, rtype |-> h.rtype, plen |-> h.plen,
                                  payload |-> Slice(d, p + HEADER_SIZE, payload_end)]),
              error   |-> s.error]
        ELSE advance

ScanStart == [pos |-> 0, records |-> << >>, rkeys |-> << >>, emitted |-> << >>,
              error |-> NoError]

\* The whole call: the scanner state when the loop ends or an error is raised.
RECURSIVE ScanFrom(_, _)
ScanFrom(d, s) ==
  IF s.error # NoError \/ ~(s.pos < ScanEnd(d)) THEN s ELSE ScanFrom(d, ScanIter(d, s))

parse_raw_records(d) == ScanFrom(d, ScanStart)

----------------------------------------------------------------------------
(***************************************************************************)
(* Record type codes, the naming table and the decoder dispatch table.     *)
(***************************************************************************)
REC_NAV == 1102   \* 0x044e

REC_CTD_YSI == 1053   \* 0x041d

REC_CTD_SBE == 1034   \* 0x040a

REC_ADCP == 1000   \* 0x03e8

REC_SIDESCAN == 1015   \* 0x03f7

REC_ECO == 1086   \* 0x043e

REC_GPS == 1017   \* 0x03f9

REC_VEHICLE_NAME == 1012   \* 0x03f4

REC_VEHICLE_INFO == 1037   \* 0x040d

REC_MANUFACTURER == 1046   \* 0x0416

REC_MODEM_LOG == 1060   \* 0x0424

REC_DIAGNOSTIC == 1001   \* 0x03e9

REC_MISSION_MODES == 1006   \* 0x03ee

REC_MISSION_LEGS == 1008   \* 0x03f0

REC_SENSOR_NAMES == 1020   \* 0x03fc

REC_SENSOR_TYPES == 1031   \* 0x0407

REC_SENSOR_DISPLAY == 1036   \* 0x040c

REC_NAV_ACOUSTIC == 1050   \* 0x041a

REC_DATA_CHANNELS == 1052   \* 0x041c

REC_WAYPOINTS == 1063   \* 0x0427

REC_ECO_CAL == 1085   \* 0x043d

REC_ACOUSTIC_FIX == 1055   \* 0x041f

REC_BATTERY_STATUS == 1042   \* 0x0412

REC_BATTERY_CELLS == 1043   \* 0x0413

REC_OBJ_NAV == 1009   \* 0x03f1

REC_COMPASS_CAL == 1045   \* 0x0415

REC_HOUSING_TEMP == 1038   \* 0x040e

REC_ENERGY_MON == 1026   \* 0x0402

REC_DVL_STATUS == 1035   \* 0x040b

REC_SUBSYS_MODE == 1032   \* 0x0408

REC_STARTUP_FLAG == 1094   \* 0x0446

REC_EVENT_MARKER == 1007   \* 0x03ef

\* A name is a tuple of strings: a registered name is <<name>>, a synthesized one
\* is <<"Unknown_0x", h3, h2, h1, h0>> with the four hex digits of the code.
RECORD_NAMES ==
     REC_NAV :> <<"Navigation">>
  @@ REC_CTD_YSI :> <<"YSI CTD">>
  @@ REC_CTD_SBE :> <<"Seabird CTD (SBE49)">>
  @@ REC_ADCP :> <<"ADCP/DVL (1200 kHz)">>
  @@ REC_SIDESCAN :> <<"Sidescan (900 kHz)">>
  @@ REC_ECO :> <<"Wetlabs ECO BB2F">>
  @@ REC_GPS :> <<"GPS/Acoustic Nav">>
  @@ REC_VEHICLE_NAME :> <<"Vehicle Name">>
  @@ REC_VEHICLE_INFO :> <<"Vehicle Info">>
  @@ REC_MANUFACTURER :> <<"Manufacturer Info">>
  @@ REC_MODEM_LOG :> <<"Acoustic Modem Log">>
  @@ REC_DIAGNOSTIC :> <<"Diagnostic Log">>
  @@ REC_MISSION_MODES :> <<"Mission Modes">>
  @@ REC_MISSION_LEGS :> <<"Mission Legs">>
  @@ REC_SENSOR_NAMES :> <<"Sensor Names">>
  @@ REC_SENSOR_TYPES :> <<"Sensor Types">>
  @@ REC_SENSOR_DISPLAY :> <<"Sensor Display Config">>
  @@ REC_NAV_ACOUSTIC :> <<"Nav/Acoustic">>
  @@ REC_DATA_CHANNELS :> <<"Data Channels">>
  @@ REC_WAYPOINTS :> <<"Waypoints">>
  @@ REC_ECO_CAL :> <<"ECO Calibration">>
  @@ REC_ACOUSTIC_FIX :> <<"Acoustic Nav Fix">>
  @@ REC_BATTERY_STATUS :> <<"Battery Status">>
  @@ REC_BATTERY_CELLS :> <<"Battery Cell Data">>
  @@ REC_OBJ_NAV :> <<"Objective Navigation">>
  @@ REC_COMPASS_CAL :> <<"Compass Calibration">>
  @@ REC_HOUSING_TEMP :> <<"Housing Temperature">>
  @@ REC_ENERGY_MON :> <<"Energy Monitor">>
  @@ REC_DVL_STATUS :> <<"DVL Status">>
  @@ REC_SUBSYS_MODE :> <<"Subsystem Mode">>
  @@ REC_STARTUP_FLAG :> <<"Startup Flag">>
  @@ REC_EVENT_MARKER :> <<"Event Marker">>

\* The dispatch table, as the name of the decoding function of each code.
_DECODERS ==
     REC_NAV :> "decode_nav"
  @@ REC_CTD_YSI :> "decode_ctd_ysi"
  @@ REC_CTD_SBE :> "decode_ctd_sbe"
  @@ REC_ADCP :> "decode_adcp"
  @@ REC_SIDESCAN :> "decode_sidescan"
  @@ REC_ECO :> "decode_eco"
  @@ REC_GPS :> "decode_gps"
  @@ REC_VEHICLE_NAME :> "decode_vehicle_name"
  @@ REC_VEHICLE_INFO :> "decode_vehicle_info"
  @@ REC_MANUFACTURER :> "decode_manufacturer_info"
  @@ REC_MODEM_LOG :> "decode_modem_log"
  @@ REC_DIAGNOSTIC :> "decode_diagnostic"
  @@ REC_MISSION_MODES :> "decode_mission_modes"
  @@ REC_MISSION_LEGS :> "decode_mission_legs"
  @@ REC_SENSOR_NAMES :> "decode_sensor_names"
  @@ REC_SENSOR_TYPES :> "decode_sensor_types"
  @@ REC_SENSOR_DISPLAY :> "decode_sensor_display"
  @@ REC_NAV_ACOUSTIC :> "decode_nav_acoustic"
  @@ REC_DATA_CHANNELS :> "decode_data_channels"
  @@ REC_WAYPOINTS :> "decode_waypoints"
  @@ REC_ECO_CAL :> "decode_eco_calibration"
  @@ REC_ACOUSTIC_FIX :> "decode_acoustic_fix"
  @@ REC_BATTERY_STATUS :> "decode_battery_status"
  @@ REC_BATTERY_CELLS :> "decode_battery_cells"
  @@ REC_OBJ_NAV :> "decode_objective_nav"
  @@ REC_COMPASS_CAL :> "decode_compass_cal"
  @@ REC_HOUSING_TEMP :> "decode_housing_temp"
  @@ REC_ENERGY_MON :> "decode_energy_monitor"
  @@ REC_DVL_STATUS :> "decode_dvl_status"
  @@ REC_SUBSYS_MODE :> "decode_subsystem_mode"
  @@ REC_STARTUP_FLAG :> "decode_startup_flag"
  @@ REC_EVENT_MARKER :> "decode_event_marker"

HexDigits == <<"0", "1", "2", "3", "4", "5", "6", "7", "8", "9", "a", "b", "c", "d", "e", "f">>

\* f'{rtype:04x}' for 0 <= rtype < 65536: four lower-case hex digits, most significant first.
Hex4(n) ==
  <<HexDigits[((n \div 4096) % 16) + 1], HexDigits[((n \div 256) % 16) + 1],
    HexDigits[((n \div 16) % 16) + 1], HexDigits[(n % 16) + 1]>>

\* f'Unknown_0x{rtype:04x}' written with three hex digits only.
UnknownNameShort(rtype) == <<"Unknown_0x">> \o Tail(Hex4(rtype))

\* f'Unknown_0x{rtype:04x}'
UnknownName(rtype) == <<"Unknown_0x">> \o Hex4(rtype)

\* RECORD_NAMES.get(rtype, f'Unknown_0x{rtype:04x}')
RecordName(rtype) ==
  IF rtype \in DOMAIN RECORD_NAMES THEN RECORD_NAMES[rtype] ELSE UnknownName(rtype)

----------------------------------------------------------------------------
(***************************************************************************)
(* unwrap_timestamps.                                                      *)
(*                                                                         *)
(* A raw uint32 v is held as [b31 |-> v \div 2^31, low |-> v % 2^31]: the  *)
(* flag bit and the 31 bits under it.  The working array and the output    *)
(* are float64 in the code; every value that arises is an integer below    *)
(* 2^53, or such an integer divided by 3,600,000, so the arithmetic is     *)
(* exact up to the final division, which is monotone.  An output value is  *)
(* the exact quotient [n |-> numerator, d |-> denominator].                *)
(***************************************************************************)
ROLLOVER_JUMP == 1000000

DAY_MS == 86400000

HOUR_MS == 3600000

\* ts = np.where(ts > 0x7FFFFFFF, ts - 0x80000000, ts), the flag bit left to weigh in the value.
MaskBit31Kept(v) == v.low + v.b31 * 1000000

\* ts = np.where(ts > 0x7FFFFFFF, ts - 0x80000000, ts)
MaskBit31(v) == v.low

\* if ts[i] - ts[i - 1] < -1_000_000, tested on the raw difference without the threshold.
RolledOverAnyDrop(prev, cur) == cur - prev < 0

\* if ts[i] - ts[i - 1] < -1_000_000
RolledOver(prev, cur) == cur - prev < -ROLLOVER_JUMP

\* One iteration of the for loop, adding to ts[i] alone instead of ts[i:].
UnwrapIterOnlyAtI(arr, i) ==
  IF RolledOver(arr[i], arr[i + 1])
  THEN [j \in 1..Len(arr) |-> IF j = i + 1 THEN arr[j] + DAY_MS ELSE arr[j]]
  ELSE arr

\* One iteration of the for loop at Python index i (1 <= i < len): ts[i:] += 86_400_000.
UnwrapIter(arr, i) ==
  IF RolledOver(arr[i], arr[i + 1])
  THEN [j \in 1..Len(arr) |-> IF j >= i + 1 THEN arr[j] + DAY_MS ELSE arr[j]]
  ELSE arr

RECURSIVE UnwrapFrom(_, _)
UnwrapFrom(arr, i) == IF i >= Len(arr) THEN arr ELSE UnwrapFrom(UnwrapIter(arr, i), i + 1)

\* return (ts - ts[0]) / 3_600_000.0, without the subtraction of ts[0].
ElapsedFromZero(arr) == [i \in 1..Len(arr) |-> [n |-> arr[i], d |-> HOUR_MS]]

\* return (ts - ts[0]) / 3_600_000.0
Elapsed(arr) == [i \in 1..Len(arr) |-> [n |-> arr[i] - arr[1], d |-> HOUR_MS]]

\* The whole call: [error, value].  ts[0] of an empty array raises IndexError.
unwrap_timestamps(raw) ==
  LET arr == [i \in 1..Len(raw) |-> MaskBit31(raw[i])]
  IN  IF Len(raw) = 0
      THEN [error |-> Raise("IndexError", "unwrap_timestamps"), value |-> << >>]
      ELSE [error |-> NoError, value |-> Elapsed(UnwrapFrom(arr, 1))]

----------------------------------------------------------------------------
(***************************************************************************)
(* Record decoders.  A decoder returns [error, value]: error is NoError    *)
(* and value the decoded dict, or error is the exception it raised.  A     *)
(* floating-point field is kept as the bytes of its IEEE-754 encoding,     *)
(* except in the decoders that compare it with a sentinel.                 *)
(***************************************************************************)
\* struct.unpack_from('<I', d, off)[0] as [b31, low].
U32(d, off) ==
  [b31 |-> At(d, off + 3) \div 128,
   low |-> At(d, off) + 256 * At(d, off + 1) + 65536 * At(d, off + 2)
           + 16777216 * (At(d, off + 3) % 128)]

\* struct.unpack_from('<f' or '<d', d, off)[0]: the width bytes at off.
Bits(d, off, width) == Slice(d, off, off + width)

\* Every field <<offset, width>> of the layout can be unpacked from p.
Fits(p, layout) == \A f \in layout : CanUnpack(p, f[1], f[2])

\* The index of the first payload whose decoding raises, or 0: kinds[i] is the
\* exception the i-th payload raises, "none" if it decodes.
FirstBad(kinds) ==
  LET S == {i \in DOMAIN kinds : kinds[i] # "none"}
  IN  IF S = {} THEN 0 ELSE CHOOSE i \in S : \A j \in S : i <= j

\* The decoder's outcome when a payload raises: the loop stops at the first one.
Failed(kinds, at) == [error |-> Raise(kinds[FirstBad(kinds)], at), value |-> << >>]

\* s.split(b'\x00')[0]
RECURSIVE UpToNul(_)
UpToNul(s) ==
  IF s = << >> \/ Head(s) = 0 THEN << >> ELSE <<Head(s)>> \o UpToNul(Tail(s))

\* .decode('ascii', errors='replace'): a byte above 127 becomes U+FFFD.
DecodeAscii(s) == [i \in 1..Len(s) |-> IF s[i] > 127 THEN 65533 ELSE s[i]]

\* The characters str.strip() removes and \s matches, among those DecodeAscii yields.
Whitespace == (9..13) \cup (28..32)

Digits == 48..57

WordChars == Digits \cup (65..90) \cup (97..122) \cup {95}

\* Length of the longest run of characters of S in s from index i (1-based).
RECURSIVE RunLen(_, _, _)
RunLen(s, i, S) == IF i > Len(s) \/ s[i] \notin S THEN 0 ELSE 1 + RunLen(s, i + 1, S)

RECURSIVE LStrip(_)
LStrip(s) == IF s # << >> /\ Head(s) \in Whitespace THEN LStrip(Tail(s)) ELSE s

RECURSIVE RStrip(_)
RStrip(s) ==
  IF s # << >> /\ s[Len(s)] \in Whitespace THEN RStrip(SubSeq(s, 1, Len(s) - 1)) ELSE s

\* str.strip()
Strip(s) == RStrip(LStrip(s))

\* int(digits) for a run of decimal digits.
RECURSIVE IntOf(_)
IntOf(s) == IF s = << >> THEN 0 ELSE 10 * IntOf(SubSeq(s, 1, Len(s) - 1)) + (s[Len(s)] - 48)

(***************************************************************************)
(* decode_nav                                                              *)
(***************************************************************************)
NavLayout ==
  {<<0, 8>>, <<8, 8>>, <<16, 4>>, <<20, 4>>, <<24, 2>>, <<26, 4>>, <<34, 4>>, <<42, 4>>}

NavBad(p) == IF Fits(p, NavLayout) THEN "none" ELSE "struct.error"

decode_nav(payloads) ==
  IF FirstBad([i \in DOMAIN payloads |-> NavBad(payloads[i])]) # 0
  THEN Failed([i \in DOMAIN payloads |-> NavBad(payloads[i])], "decode_nav")
  ELSE
    LET raw == [i \in DOMAIN payloads |-> U32(payloads[i], 16)]
        t   == unwrap_timestamps(raw)
    IN  IF t.error # NoError THEN [error |-> t.error, value |-> << >>]
        ELSE [error |-> NoError,
              value |-> [lat           |-> [i \in DOMAIN payloads |-> Bits(payloads[i], 0, 8)],
                         lon           |-> [i \in DOMAIN payloads |-> Bits(payloads[i], 8, 8)],
                         ts_raw        |-> raw,
                         speed         |-> [i \in DOMAIN payloads |-> Bits(payloads[i], 20, 4)],
                         alt_max_range |-> [i \in DOMAIN payloads |-> U16(payloads[i], 24)],
                         pitch         |-> [i \in DOMAIN payloads |-> Bits(payloads[i], 26, 4)],
                         depth         |-> [i \in DOMAIN payloads |-> Bits(payloads[i], 34, 4)],
                         undecoded_f42 |-> [i \in DOMAIN payloads |-> Bits(payloads[i], 42, 4)],
                         t_hrs         |-> t.value]]

(***************************************************************************)
(* decode_ctd_sbe                                                          *)
(***************************************************************************)
CtdSbeLayout ==
  {<<0, 4>>, <<4, 4>>, <<8, 4>>, <<12, 4>>, <<16, 4>>, <<20, 4>>, <<24, 4>>, <<28, 4>>}

CtdSbeBad(p) == IF Fits(p, CtdSbeLayout) THEN "none" ELSE "struct.error"

decode_ctd_sbe(payloads) ==
  IF FirstBad([i \in DOMAIN payloads |-> CtdSbeBad(payloads[i])]) # 0
  THEN Failed([i \in DOMAIN payloads |-> CtdSbeBad(payloads[i])], "decode_ctd_sbe")
  ELSE
    LET raw == [i \in DOMAIN payloads |-> U32(payloads[i], 8)]
        t   == unwrap_timestamps(raw)
    IN  IF t.error # NoError THEN [error |-> t.error, value |-> << >>]
        ELSE [error |-> NoError,
              value |-> [lat          |-> [i \in DOMAIN payloads |-> Bits(payloads[i], 0, 4)],
                         lon          |-> [i \in DOMAIN payloads |-> Bits(payloads[i], 4, 4)],
                         ts_raw       |-> raw,
                         altitude     |-> [i \in DOMAIN payloads |-> Bits(payloads[i], 12, 4)],
                         conductivity |-> [i \in DOMAIN payloads |-> Bits(payloads[i], 16, 4)],
                         temperature  |-> [i \in DOMAIN payloads |-> Bits(payloads[i], 20, 4)],
                         salinity     |-> [i \in DOMAIN payloads |-> Bits(payloads[i], 24, 4)],
                         sound_speed  |-> [i \in DOMAIN payloads |-> Bits(payloads[i], 28, 4)],
                         t_hrs        |-> t.value]]

(***************************************************************************)
(* decode_gps                                                              *)
(***************************************************************************)
GpsBad(p) == IF Fits(p, {<<0, 8>>, <<8, 8>>}) THEN "none" ELSE "struct.error"

\* bytes(b for b in p[31:] if 0x20 <= b < 0x7F).decode('ascii', errors='ignore')
GpsText(p) == SelectSeq(Slice(p, 31, Len(p)), LAMBDA b : 32 <= b /\ b < 127)

\* ascii_strings after the loop: text is appended only if it is not empty.
RECURSIVE AsciiStrings(_)
AsciiStrings(payloads) ==
  IF payloads = << >> THEN << >>
  ELSE (IF GpsText(Head(payloads)) # << >> THEN <<GpsText(Head(payloads))>> ELSE << >>)
       \o AsciiStrings(Tail(payloads))

decode_gps(payloads) ==
  IF FirstBad([i \in DOMAIN payloads |-> GpsBad(payloads[i])]) # 0
  THEN Failed([i \in DOMAIN payloads |-> GpsBad(payloads[i])], "decode_gps")
  ELSE [error |-> NoError,
        value |-> [lat           |-> [i \in DOMAIN payloads |-> Bits(payloads[i], 0, 8)],
                   lon           |-> [i \in DOMAIN payloads |-> Bits(payloads[i], 8, 8)],
                   ascii_content |-> AsciiStrings(payloads)]]

(***************************************************************************)
(* decode_modem_log                                                        *)
(***************************************************************************)
\* text = p[2:].split(b'\x00')[0].decode('ascii', errors='replace').strip()
ModemText(p) == Strip(DecodeAscii(UpToNul(Slice(p, 2, Len(p)))))

\* .* stops at the first newline.
RECURSIVE UpToNewline(_)
UpToNewline(s) ==
  IF s = << >> \/ Head(s) = 10 THEN << >> ELSE <<Head(s)>> \o UpToNewline(Tail(s))

\* _pat.match(text) for _pat = ^([><])\((\w+)\)\s+(\d+):(.*) and the four lists' entries.
ModemEntry(text) ==
  LET n  == Len(text)
      w  == RunLen(text, 3, WordChars)
      a  == 3 + w
      s  == RunLen(text, a + 1, Whitespace)
      b  == a + 1 + s
      dg == RunLen(text, b, Digits)
      c  == b + dg
      m  == /\ n >= 2 /\ text[1] \in {60, 62} /\ text[2] = 40
            /\ w >= 1 /\ a <= n /\ text[a] = 41
            /\ s >= 1 /\ dg >= 1 /\ c <= n /\ text[c] = 58
  IN  IF m
      THEN [direction |-> <<text[1]>>,
            source    |-> SubSeq(text, 3, a - 1),
            counter   |-> IntOf(SubSeq(text, b, c - 1)),
            message   |-> Strip(UpToNewline(SubSeq(text, c + 1, n)))]
      ELSE [direction |-> << >>, source |-> << >>, counter |-> -1, message |-> text]

decode_modem_log(payloads) ==
  [error |-> NoError,
   value |-> [direction |-> [i \in DOMAIN payloads |-> ModemEntry(ModemText(payloads[i])).direction],
              source    |-> [i \in DOMAIN payloads |-> ModemEntry(ModemText(payloads[i])).source],
              counter   |-> [i \in DOMAIN payloads |-> ModemEntry(ModemText(payloads[i])).counter],
              message   |-> [i \in DOMAIN payloads |-> ModemEntry(ModemText(payloads[i])).message]]]

(***************************************************************************)
(* decode_mission_legs                                                     *)
(***************************************************************************)
LegsBad(p) ==
  IF Len(p) = 0 THEN "IndexError"
  ELSE IF Fits(p, {<<2, 8>>, <<10, 8>>, <<46, 2>>}) THEN "none" ELSE "struct.error"

decode_mission_legs(payloads) ==
  IF FirstBad([i \in DOMAIN payloads |-> LegsBad(payloads[i])]) # 0
  THEN Failed([i \in DOMAIN payloads |-> LegsBad(payloads[i])], "decode_mission_legs")
  ELSE [error |-> NoError,
        value |-> [leg_type  |-> [i \in DOMAIN payloads |-> At(payloads[i], 0)],
                   lat       |-> [i \in DOMAIN payloads |-> Bits(payloads[i], 2, 8)],
                   lon       |-> [i \in DOMAIN payloads |-> Bits(payloads[i], 10, 8)],
                   index     |-> [i \in DOMAIN payloads |-> U16(payloads[i], 46)],
                   type_name |-> [i \in DOMAIN payloads |-> DecodeAscii(UpToNul(Slice(payloads[i], 24, 34)))],
                   dest_name |-> [i \in DOMAIN payloads |-> DecodeAscii(UpToNul(Slice(payloads[i], 34, 44)))]]]

(***************************************************************************)
(* decode_acoustic_fix                                                     *)
(***************************************************************************)
FixLayout == {<<0, 8>>, <<8, 8>>, <<16, 4>>, <<20, 2>>, <<22, 2>>, <<26, 4>>, <<30, 4>>}

FixBad(p) ==
  IF ~Fits(p, FixLayout) THEN "struct.error"
  ELSE IF Len(p) < 52 THEN "IndexError" ELSE "none"

\* The six numbers formatted into 'datetime' (20yy-mm-dd hh:mm:ss), unformatted.
FixDatetime(p) == <<At(p, 46), At(p, 47), At(p, 48), At(p, 49), At(p, 50), At(p, 51)>>

decode_acoustic_fix(payloads) ==
  IF FirstBad([i \in DOMAIN payloads |-> FixBad(payloads[i])]) # 0
  THEN Failed([i \in DOMAIN payloads |-> FixBad(payloads[i])], "decode_acoustic_fix")
  ELSE [error |-> NoError,
        value |-> [lat      |-> [i \in DOMAIN payloads |-> Bits(payloads[i], 0, 8)],
                   lon      |-> [i \in DOMAIN payloads |-> Bits(payloads[i], 8, 8)],
                   heading  |-> [i \in DOMAIN payloads |-> Bits(payloads[i], 16, 4)],
                   speed    |-> [i \in DOMAIN payloads |-> Bits(payloads[i], 26, 4)],
                   range_m  |-> [i \in DOMAIN payloads |-> Bits(payloads[i], 30, 4)],
                   seq      |-> [i \in DOMAIN payloads |-> U16(payloads[i], 20)],
                   n_transp |-> [i \in DOMAIN payloads |-> U16(payloads[i], 22)],
                   datetime |-> [i \in DOMAIN payloads |-> FixDatetime(payloads[i])]]]

(***************************************************************************)
(* IEEE-754 values, for the decoders that compare a field with a sentinel: *)
(* sign s, biased exponent e and fraction m.  The 52-bit fraction of a     *)
(* float64 is kept as <<20 bits, 16 bits, 16 bits>>.                       *)
(***************************************************************************)
\* struct.unpack_from('<f', d, off)[0]
F32(d, off) ==
  [s |-> At(d, off + 3) \div 128,
   e |-> 2 * (At(d, off + 3) % 128) + At(d, off + 2) \div 128,
   m |-> 65536 * (At(d, off + 2) % 128) + 256 * At(d, off + 1) + At(d, off)]

\* struct.unpack_from('<d', d, off)[0]
F64(d, off) ==
  [s |-> At(d, off + 7) \div 128,
   e |-> 16 * (At(d, off + 7) % 128) + At(d, off + 6) \div 16,
   m |-> << 65536 * (At(d, off + 6) % 16) + 256 * At(d, off + 5) + At(d, off + 4),
            256 * At(d, off + 3) + At(d, off + 2),
            256 * At(d, off + 1) + At(d, off) >>]

\* np.nan as a float32 and as a float64.
NaN32 == [s |-> 0, e |-> 255, m |-> 4194304]

NaN64 == [s |-> 0, e |-> 2047, m |-> <<524288, 0, 0>>]

IsNaN32(x) == x.e = 255 /\ x.m # 0

IsNaN64(x) == x.e = 2047 /\ x.m # <<0, 0, 0>>

\* The float64 of a number whose fraction fits the upper 20 bits.
Double(s, e, hi) == [s |-> s, e |-> e, m |-> <<hi, 0, 0>>]

\* abs(a) < abs(b) for two float64 values: a comparison with a NaN is false, and the
\* magnitudes of the others are ordered as their bit patterns are.
AbsLess64(a, b) ==
  /\ ~IsNaN64(a) /\ ~IsNaN64(b)
  /\ \/ a.e < b.e
     \/ a.e = b.e /\ a.m[1] < b.m[1]
     \/ a.e = b.e /\ a.m[1] = b.m[1] /\ a.m[2] < b.m[2]
     \/ a.e = b.e /\ a.m[1] = b.m[1] /\ a.m[2] = b.m[2] /\ a.m[3] < b.m[3]

\* a == b for two float32 values: false for a NaN, true for two zeros of either sign.
Eq32(a, b) ==
  /\ ~IsNaN32(a) /\ ~IsNaN32(b)
  /\ \/ a = b
     \/ a.e = 0 /\ a.m = 0 /\ b.e = 0 /\ b.m = 0

(***************************************************************************)
(* decode_sidescan                                                         *)
(***************************************************************************)
\* SIDESCAN_SENTINEL = -32.768 as the float32 subtraction takes it: -(2^23 + 201327) * 2^-18.
SIDESCAN_SENTINEL == [s |-> 1, e |-> 132, m |-> 201327]

\* np.abs(x - SIDESCAN_SENTINEL) < 0.01.  A value of another sign or exponent is at least
\* 0.768 away; for one of the same sign and exponent the difference is the exact multiple
\* |x.m - 201327| * 2^-18, which is below 0.01 exactly when it is at most 2621 * 2^-18.
NearSentinel(x) ==
  /\ ~IsNaN32(x)
  /\ x.s = SIDESCAN_SENTINEL.s
  /\ x.e = SIDESCAN_SENTINEL.e
  /\ 100 * (IF x.m >= SIDESCAN_SENTINEL.m THEN x.m - SIDESCAN_SENTINEL.m
                                          ELSE SIDESCAN_SENTINEL.m - x.m) < 262144

\* np.where(np.abs(out[key] - SIDESCAN_SENTINEL) < 0.01, np.nan, out[key])
MaskSidescan(x) == IF NearSentinel(x) THEN NaN32 ELSE x

SidescanLayout == {<<0, 4>>, <<4, 4>>, <<8, 4>>, <<12, 4>>, <<32, 4>>, <<38, 4>>}

SidescanBad(p) == IF Fits(p, SidescanLayout) THEN "none" ELSE "struct.error"

decode_sidescan(payloads) ==
  IF FirstBad([i \in DOMAIN payloads |-> SidescanBad(payloads[i])]) # 0
  THEN Failed([i \in DOMAIN payloads |-> SidescanBad(payloads[i])], "decode_sidescan")
  ELSE [error |-> NoError,
        value |-> [lat         |-> [i \in DOMAIN payloads |-> F32(payloads[i], 0)],
                   lon         |-> [i \in DOMAIN payloads |-> F32(payloads[i], 4)],
                   altitude    |-> [i \in DOMAIN payloads |-> MaskSidescan(F32(payloads[i], 8))],
                   depth       |-> [i \in DOMAIN payloads |-> MaskSidescan(F32(payloads[i], 12))],
                   temperature |-> [i \in DOMAIN payloads |-> MaskSidescan(F32(payloads[i], 32))],
                   heading     |-> [i \in DOMAIN payloads |-> F32(payloads[i], 38)]]]

(***************************************************************************)
(* decode_nav_acoustic                                                     *)
(***************************************************************************)
\* BAD = -1.0
BAD == [s |-> 1, e |-> 127, m |-> 0]

\* np.where(out[key] == BAD, np.nan, out[key])
MaskBad(x) == IF Eq32(x, BAD) THEN NaN32 ELSE x

\* lat if (15 < abs(lat) < 90) else np.nan
MaskLat(lat) ==
  IF AbsLess64(Double(0, 1026, 917504), lat) /\ AbsLess64(lat, Double(0, 1029, 425984))
  THEN lat ELSE NaN64

\* lon if (90 < abs(lon) < 180) else np.nan
MaskLon(lon) ==
  IF AbsLess64(Double(0, 1029, 425984), lon) /\ AbsLess64(lon, Double(0, 1030, 425984))
  THEN lon ELSE NaN64

NavAcousticLayout == {<<8, 4>>, <<12, 4>>, <<24, 8>>, <<32, 8>>, <<40, 4>>, <<44, 4>>}

NavAcousticBad(p) == IF Fits(p, NavAcousticLayout) THEN "none" ELSE "struct.error"

decode_nav_acoustic(payloads) ==
  IF FirstBad([i \in DOMAIN payloads |-> NavAcousticBad(payloads[i])]) # 0
  THEN Failed([i \in DOMAIN payloads |-> NavAcousticBad(payloads[i])], "decode_nav_acoustic")
  ELSE [error |-> NoError,
        value |-> [heading_dvl     |-> [i \in DOMAIN payloads |-> MaskBad(F32(payloads[i], 8))],
                   sound_speed_dvl |-> [i \in DOMAIN payloads |-> MaskBad(F32(payloads[i], 12))],
                   lat             |-> [i \in DOMAIN payloads |-> MaskLat(F64(payloads[i], 24))],
                   lon             |-> [i \in DOMAIN payloads |-> MaskLon(F64(payloads[i], 32))],
                   heading         |-> [i \in DOMAIN payloads |-> F32(payloads[i], 40)],
                   sound_speed     |-> [i \in DOMAIN payloads |-> F32(payloads[i], 44)]]]

(***************************************************************************)
(* The static tables: decode_mission_modes, decode_sensor_names,           *)
(* decode_sensor_types, decode_data_channels, decode_eco_calibration.      *)
(***************************************************************************)
\* p[a:b].split(b'\x00')[0].decode('ascii', errors='replace')
Text(p, a, b) == DecodeAscii(UpToNul(Slice(p, a, b)))

\* d = {}; d[keys[i]] = vals[i] for each i in turn: the last store to a key stays.
LastWins(keys, vals) ==
  [x \in {keys[i] : i \in DOMAIN keys} |->
     vals[CHOOSE i \in DOMAIN keys : keys[i] = x /\ \A j \in DOMAIN keys : keys[j] = x => j <= i]]

\* p[0] raises IndexError on an empty payload.
FirstByteBad(p) == IF Len(p) = 0 THEN "IndexError" ELSE "none"

decode_mission_modes(payloads) ==
  IF FirstBad([i \in DOMAIN payloads |-> FirstByteBad(payloads[i])]) # 0
  THEN Failed([i \in DOMAIN payloads |-> FirstByteBad(payloads[i])], "decode_mission_modes")
  ELSE [error |-> NoError,
        value |-> LastWins([i \in DOMAIN payloads |-> At(payloads[i], 0)],
                           [i \in DOMAIN payloads |->
                              Text(payloads[i], 4, Len(payloads[i]))])]

\* if name and name not in seen: seen.append(name), from the i-th payload on.
RECURSIVE SensorNamesFrom(_, _, _)
SensorNamesFrom(payloads, i, seen) ==
  IF i > Len(payloads) THEN seen
  ELSE LET name == Text(payloads[i], 0, 11)
       IN  SensorNamesFrom(payloads, i + 1,
                           IF name # << >> /\ ~(\E j \in DOMAIN seen : seen[j] = name)
                           THEN Append(seen, name) ELSE seen)

decode_sensor_names(payloads) ==
  [error |-> NoError, value |-> SensorNamesFrom(payloads, 1, << >>)]

decode_sensor_types(payloads) ==
  IF FirstBad([i \in DOMAIN payloads |-> FirstByteBad(payloads[i])]) # 0
  THEN Failed([i \in DOMAIN payloads |-> FirstByteBad(payloads[i])], "decode_sensor_types")
  ELSE [error |-> NoError,
        value |-> LastWins([i \in DOMAIN payloads |-> At(payloads[i], 0)],
                           [i \in DOMAIN payloads |-> Text(payloads[i], 1, 12)])]

DataChannelsBad(p) == IF Fits(p, {<<0, 2>>, <<22, 2>>}) THEN "none" ELSE "struct.error"

DataChannel(p) ==
  [index |-> U16(p, 0), name |-> Text(p, 2, 12), rate_ms |-> U16(p, 22)]

\* if (idx, name) not in seen: seen.add((idx, name)); channels.append({...})
RECURSIVE DataChannelsFrom(_, _, _)
DataChannelsFrom(payloads, i, channels) ==
  IF i > Len(payloads) THEN channels
  ELSE LET c == DataChannel(payloads[i])
       IN  DataChannelsFrom(payloads, i + 1,
             IF \E j \in DOMAIN channels :
                  channels[j].index = c.index /\ channels[j].name = c.name
             THEN channels ELSE Append(channels, c))

decode_data_channels(payloads) ==
  IF FirstBad([i \in DOMAIN payloads |-> DataChannelsBad(payloads[i])]) # 0
  THEN Failed([i \in DOMAIN payloads |-> DataChannelsBad(payloads[i])], "decode_data_channels")
  ELSE [error |-> NoError, value |-> DataChannelsFrom(payloads, 1, << >>)]

\* p[34] and p[35] raise IndexError, the unpacking at 38 and 42 struct.error.
EcoCalBad(p) ==
  IF Len(p) < 36 THEN "IndexError"
  ELSE IF Fits(p, {<<38, 4>>, <<42, 4>>}) THEN "none" ELSE "struct.error"

EcoChannel(p) ==
  [channel |-> Text(p, 0, 17), units |-> Text(p, 17, 34), index |-> At(p, 34),
   calibrated |-> At(p, 35) # 0, scale |-> Bits(p, 38, 4), offset |-> Bits(p, 42, 4)]

\* channels.append({...}) for every payload.
decode_eco_calibration(payloads) ==
  IF FirstBad([i \in DOMAIN payloads |-> EcoCalBad(payloads[i])]) # 0
  THEN Failed([i \in DOMAIN payloads |-> EcoCalBad(payloads[i])], "decode_eco_calibration")
  ELSE [error |-> NoError, value |-> [i \in DOMAIN payloads |-> EcoChannel(payloads[i])]]

(***************************************************************************)
(* decode_event_marker                                                     *)
(***************************************************************************)
decode_event_marker(payloads) == [error |-> NoError, value |-> [count |-> Len(payloads)]]

\* The decoders this model carries; input buffers hold registered types of this set only.
Modelled ==
  {"decode_nav", "decode_ctd_sbe", "decode_gps", "decode_modem_log", "decode_mission_legs",
   "decode_acoustic_fix", "decode_event_marker", "decode_sidescan", "decode_nav_acoustic",
   "decode_mission_modes", "decode_sensor_names", "decode_sensor_types",
   "decode_data_channels", "decode_eco_calibration"}

\* decoder(payloads) for a decoder of the dispatch table.
Call(decoder, payloads) ==
  CASE decoder = "decode_nav"           -> decode_nav(payloads)
    [] decoder = "decode_ctd_sbe"       -> decode_ctd_sbe(payloads)
    [] decoder = "decode_gps"           -> decode_gps(payloads)
    [] decoder = "decode_modem_log"     -> decode_modem_log(payloads)
    [] decoder = "decode_mission_legs"  -> decode_mission_legs(payloads)
    [] decoder = "decode_acoustic_fix"  -> decode_acoustic_fix(payloads)
    [] decoder = "decode_event_marker"  -> decode_event_marker(payloads)
    [] decoder = "decode_sidescan"      -> decode_sidescan(payloads)
    [] decoder = "decode_nav_acoustic"  -> decode_nav_acoustic(payloads)
    [] decoder = "decode_mission_modes" -> decode_mission_modes(payloads)
    [] decoder = "decode_sensor_names"  -> decode_sensor_names(payloads)
    [] decoder = "decode_sensor_types"  -> decode_sensor_types(payloads)
    [] decoder = "decode_data_channels" -> decode_data_channels(payloads)
    [] decoder = "decode_eco_calibration" -> decode_eco_calibration(payloads)

----------------------------------------------------------------------------
(***************************************************************************)
(* _stamp_by_position.                                                     *)
(***************************************************************************)
\* end = len(data) - HEADER_SIZE, two bytes short.
StampEndShort(d) == Len(d) - HEADER_SIZE - 2

\* end = len(data) - HEADER_SIZE
StampEnd(d) == Len(d) - HEADER_SIZE

\* One iteration of the while loop on s = [pos, ref_pos, target_pos, error].
StampIter(d, s, ttype, rtype) ==
  LET p == s.pos
      advance == [s EXCEPT !.pos = p + 1]
  IN
  IF ~InBuf(d, p) THEN [s EXCEPT !.error = Raise("IndexError", "_stamp_by_position")]
  ELSE IF At(d, p) # 235 THEN advance
  ELSE IF ~InBuf(d, p + 1) THEN [s EXCEPT !.error = Raise("IndexError", "_stamp_by_position")]
  ELSE IF At(d, p + 1) # 144 THEN advance
  ELSE IF ~CanUnpack(d, p + 2, 6) THEN [s EXCEPT !.error = Raise("struct.error", "_stamp_by_position")]
  ELSE
    LET ft == U16(d, p + 4)
        plen  == U16(d, p + 6)
        payload_end == p + HEADER_SIZE + plen
    IN  IF payload_end <= Len(d)
        THEN [pos        |-> payload_end,
              ref_pos    |-> IF ft = rtype THEN Append(s.ref_pos, p) ELSE s.ref_pos,
              target_pos |-> IF ft # rtype /\ ft = ttype
                             THEN Append(s.target_pos, p) ELSE s.target_pos,
              error      |-> s.error]
        ELSE advance

RECURSIVE StampFrom(_, _, _, _)
StampFrom(d, s, ttype, rtype) ==
  IF s.error # NoError \/ ~(s.pos < StampEnd(d)) THEN s
  ELSE StampFrom(d, StampIter(d, s, ttype, rtype), ttype, rtype)

\* np.interp(x, xp, fp) at one point x as a step function: the time of the reference
\* frame at or before x, without the linear term.
Interp1Step(x, xp, fp) ==
  LET n == Len(xp)
  IN  IF x <= xp[1] THEN fp[1]
      ELSE IF x >= xp[n] THEN fp[n]
      ELSE fp[CHOOSE i \in 1..(n - 1) : xp[i] <= x /\ x < xp[i + 1]]

\* np.interp(x, xp, fp) continuing the first and the last segment outside [xp[0], xp[-1]].
Interp1Extrapolated(x, xp, fp) ==
  LET n == Len(xp)
  IN  IF n = 1 THEN fp[1]
      ELSE LET j  == IF x < xp[1] THEN 1
                     ELSE IF x >= xp[n] THEN n - 1
                     ELSE CHOOSE i \in 1..(n - 1) : xp[i] <= x /\ x < xp[i + 1]
               dx == xp[j + 1] - xp[j]
               a  == fp[j]
               c  == fp[j + 1]
           IN  [n |-> a.n * c.d * dx + (x - xp[j]) * (c.n * a.d - a.n * c.d),
                d |-> a.d * c.d * dx]

\* np.interp(x, xp, fp) at one point x, for increasing xp: fp[0] left of xp[0],
\* fp[-1] from xp[-1] on, and on the segment xp[j] <= x < xp[j+1] the value
\* fp[j] + (x - xp[j]) * (fp[j+1] - fp[j]) / (xp[j+1] - xp[j]), as an exact quotient.
Interp1(x, xp, fp) ==
  LET n == Len(xp)
  IN  IF x <= xp[1] THEN fp[1]
      ELSE IF x >= xp[n] THEN fp[n]
      ELSE LET j  == CHOOSE i \in 1..(n - 1) : xp[i] <= x /\ x < xp[i + 1]
               dx == xp[j + 1] - xp[j]
               a  == fp[j]
               c  == fp[j + 1]
           IN  IF a.d = c.d
               THEN [n |-> a.n * dx + (x - xp[j]) * (c.n - a.n), d |-> a.d * dx]
               ELSE [n |-> a.n * c.d * dx + (x - xp[j]) * (c.n * a.d - a.n * c.d),
                     d |-> a.d * c.d * dx]

\* if not ref_pos or not target_pos, testing ref_pos alone.
NoFramesToStampRefOnly(rp, tp) == rp = << >>

\* if not ref_pos or not target_pos: return np.zeros(len(target_pos))
NoFramesToStamp(rp, tp) == rp = << >> \/ tp = << >>

\* The statements after the loop: [error, value].  np.interp raises ValueError when xp
\* and fp differ in length.
StampResult(rp, tp, fp) ==
  IF NoFramesToStamp(rp, tp)
  THEN [error |-> NoError, value |-> [i \in 1..Len(tp) |-> [n |-> 0, d |-> 1]]]
  ELSE IF Len(rp) # Len(fp)
  THEN [error |-> Raise("ValueError", "_stamp_by_position"), value |-> << >>]
  ELSE [error |-> NoError, value |-> [i \in 1..Len(tp) |-> Interp1(tp[i], rp, fp)]]

\* The whole call: [error, value].
_stamp_by_position(d, ttype, rtype, fp) ==
  LET s == StampFrom(d, [pos |-> 0, ref_pos |-> << >>, target_pos |-> << >>, error |-> NoError],
                     ttype, rtype)
  IN  IF s.error # NoError THEN [error |-> s.error, value |-> << >>]
      ELSE StampResult(s.ref_pos, s.target_pos, fp)

----------------------------------------------------------------------------
(***************************************************************************)
(* parse_rlf: the scan, the dispatch loop over raw.items(), the inferred   *)
(* timestamps of the modem log, and the return.                            *)
(***************************************************************************)
\* while pos < end: one iteration of parse_raw_records.
Scan ==
  /\ pc = "scan"
  /\ pos < ScanEnd(data)
  /\ LET s == ScanIter(data, [pos |-> pos, records |-> records, rkeys |-> rkeys,
                              emitted |-> emitted, error |-> NoError])
     IN  /\ pos' = s.pos
         /\ records' = s.records
         /\ rkeys' = s.rkeys
         /\ emitted' = s.emitted
         /\ error' = s.error
         /\ pc' = IF s.error # NoError THEN "raised" ELSE "scan"
  /\ UNCHANGED <<data, chunks, decode, k, result, summary, ret, uvars, svars, avars>>

\* The scan is over and decode is false: return raw.
ReturnRaw ==
  /\ pc = "scan"
  /\ ~(pos < ScanEnd(data))
  /\ ~decode
  /\ ret' = records
  /\ pc' = "done"
  /\ UNCHANGED <<data, chunks, decode, pos, records, rkeys, emitted, k, result, summary, error,
                 uvars, svars, avars>>

\* The scan is over and decode is true: result = {}, summary = {}.
BeginDecode ==
  /\ pc = "scan"
  /\ ~(pos < ScanEnd(data))
  /\ decode
  /\ result' = << >>
  /\ summary' = << >>
  /\ k' = 0
  /\ pc' = "dispatch"
  /\ UNCHANGED <<data, chunks, decode, pos, records, rkeys, emitted, ret, error, uvars, svars, avars>>

\* The summary row of one type.
SummaryRowFirstOnly(rtype, payloads) ==
  [type_hex |-> <<"0x">> \o Hex4(rtype), count |-> 1,
   payload_bytes |-> IF payloads # << >> THEN Len(payloads[1]) ELSE 0]

SummaryRow(rtype, payloads) ==
  [type_hex |-> <<"0x">> \o Hex4(rtype), count |-> Len(payloads),
   payload_bytes |-> IF payloads # << >> THEN Len(payloads[1]) ELSE 0]

\* result[name] = payloads  # keep raw, losing the entry instead.
KeepRawDropped(res, name, payloads) == res

\* result[name] = payloads  # keep raw
KeepRaw(res, name, payloads) == Put(res, name, [kind |-> "raw", val |-> payloads])

\* One iteration of for rtype, payloads in raw.items().
Dispatch ==
  /\ pc = "dispatch"
  /\ k < Len(rkeys)
  /\ LET rtype    == rkeys[k + 1]
         payloads == records[rtype]
         name     == RecordName(rtype)
     IN  /\ summary' = Put(summary, name, SummaryRow(rtype, payloads))
         /\ IF rtype \in DOMAIN _DECODERS
            THEN LET r == Call(_DECODERS[rtype], payloads)
                 IN  IF r.error # NoError
                     THEN /\ error' = r.error
                          /\ pc' = "raised"
                          /\ UNCHANGED result
                     ELSE /\ result' = Put(result, name, [kind |-> "decoded", val |-> r.value])
                          /\ UNCHANGED <<error, pc>>
            ELSE /\ result' = KeepRaw(result, name, payloads)
                 /\ UNCHANGED <<error, pc>>
  /\ k' = k + 1
  /\ UNCHANGED <<data, chunks, decode, pos, records, rkeys, emitted, ret, uvars, svars, avars>>

\* After the loop: attach inferred timestamps to the modem log when both
\* 'Navigation' and 'Acoustic Modem Log' were decoded.
Stamp ==
  /\ pc = "dispatch"
  /\ k = Len(rkeys)
  /\ LET nav   == <<"Navigation">>
         modem == <<"Acoustic Modem Log">>
     IN  IF nav \in DOMAIN result /\ modem \in DOMAIN result /\ result[modem].kind = "decoded"
         THEN LET t == _stamp_by_position(data, REC_MODEM_LOG, REC_NAV, result[nav].val.t_hrs)
              IN  IF t.error # NoError
                  THEN /\ error' = t.error
                       /\ pc' = "raised"
                       /\ UNCHANGED result
                  ELSE /\ result' = Put(result, modem,
                                        [kind |-> "decoded",
                                         val  |-> ("t_hrs" :> t.value) @@ result[modem].val])
                       /\ pc' = "finish"
                       /\ UNCHANGED error
         ELSE /\ pc' = "finish"
              /\ UNCHANGED <<result, error>>
  /\ UNCHANGED <<data, chunks, decode, pos, records, rkeys, emitted, k, summary, ret, uvars, svars, avars>>

\* result['_raw'] = raw; result['_summary'] = summary; return result
Return ==
  /\ pc = "finish"
  /\ result' = Put(Put(result, <<"_raw">>, [kind |-> "index", val |-> records]),
                   <<"_summary">>, [kind |-> "summary", val |-> summary])
  /\ ret' = result'
  /\ pc' = "done"
  /\ UNCHANGED <<data, chunks, decode, pos, records, rkeys, emitted, k, summary, error, uvars, svars, avars>>

NextRlf == Scan \/ ReturnRaw \/ BeginDecode \/ Dispatch \/ Stamp \/ Return

----------------------------------------------------------------------------
(***************************************************************************)
(* unwrap_timestamps called on its own, one loop iteration per step.       *)
(***************************************************************************)
\* ts = ts_raw.astype(np.float64); ts = np.where(ts > 0x7FFFFFFF, ts - 0x80000000, ts)
UnwrapMask ==
  /\ pc = "unwrap"
  /\ ts' = [i \in 1..Len(ts_raw) |-> MaskBit31(ts_raw[i])]
  /\ ui' = 1
  /\ pc' = "unwrap_loop"
  /\ UNCHANGED <<rvars, svars, avars, error, ts_raw, t_out>>

\* for i in range(1, len(ts)): one iteration.
UnwrapStep ==
  /\ pc = "unwrap_loop"
  /\ ui < Len(ts)
  /\ ts' = UnwrapIter(ts, ui)
  /\ ui' = ui + 1
  /\ UNCHANGED <<rvars, svars, avars, error, pc, ts_raw, t_out>>

\* return (ts - ts[0]) / 3_600_000.0
UnwrapReturn ==
  /\ pc = "unwrap_loop"
  /\ ~(ui < Len(ts))
  /\ IF Len(ts) = 0
     THEN /\ error' = Raise("IndexError", "unwrap_timestamps")
          /\ pc' = "raised"
          /\ UNCHANGED t_out
     ELSE /\ t_out' = Elapsed(ts)
          /\ pc' = "unwrapped"
          /\ UNCHANGED error
  /\ UNCHANGED <<rvars, svars, avars, ts_raw, ts, ui>>

NextUnwrap == UnwrapMask \/ UnwrapStep \/ UnwrapReturn

----------------------------------------------------------------------------
(***************************************************************************)
(* _stamp_by_position called on its own, one loop iteration per step.      *)
(***************************************************************************)
\* while pos < end: one iteration.
StampScan ==
  /\ pc = "stamp_scan"
  /\ pos < StampEnd(data)
  /\ LET s == StampIter(data, [pos |-> pos, ref_pos |-> ref_pos, target_pos |-> target_pos,
                               error |-> NoError], target_type, ref_type)
     IN  /\ pos' = s.pos
         /\ ref_pos' = s.ref_pos
         /\ target_pos' = s.target_pos
         /\ error' = s.error
         /\ pc' = IF s.error # NoError THEN "raised" ELSE "stamp_scan"
  /\ UNCHANGED <<data, chunks, decode, records, rkeys, emitted, k, result, summary, ret,
                 uvars, avars, target_type, ref_type, ref_t_hrs, stamped>>

\* The loop is over: return np.zeros(len(target_pos)) or np.interp(target_pos, ref_pos, ref_t_hrs).
StampReturn ==
  /\ pc = "stamp_scan"
  /\ ~(pos < StampEnd(data))
  /\ LET r == StampResult(ref_pos, target_pos, ref_t_hrs)
     IN  IF r.error # NoError
         THEN /\ error' = r.error
              /\ pc' = "raised"
              /\ UNCHANGED stamped
         ELSE /\ stamped' = r.value
              /\ pc' = "stamped"
              /\ UNCHANGED error
  /\ UNCHANGED <<rvars, uvars, avars, target_type, ref_type, ref_t_hrs, ref_pos, target_pos>>

NextStamp == StampScan \/ StampReturn

----------------------------------------------------------------------------
(***************************************************************************)
(* parse_adc (src/remus_adcp.py): the sub-block decoders, pass 1 that      *)
(* locates the ensembles and the fixed leader, the allocation of the       *)
(* output and pass 2 that fills it.                                        *)
(*                                                                         *)
(* A float32 field computed as raw / 100.0 or raw / 10.0 is held as the    *)
(* exact quotient [n, d].  np.empty leaves every cell holding whatever the *)
(* allocator returned: the model draws one value for all such cells of a   *)
(* call.  Storing a Python int that does not fit the array's integer type  *)
(* wraps around or raises OverflowError, depending on the NumPy release:   *)
(* mode is "wrap" or "raise".                                              *)
(***************************************************************************)
PD0_FIXED_LEADER == 0       \* 0x0000

PD0_VARIABLE_LEADER == 128  \* 0x0080

PD0_VELOCITY == 256         \* 0x0100

PD0_CORRELATION == 512      \* 0x0200

PD0_ECHO_INTENSITY == 768   \* 0x0300

PD0_PERCENT_GOOD == 1024    \* 0x0400

PD0_BOTTOM_TRACK == 1536    \* 0x0600

FREQ_MAP == (0 :> 75) @@ (1 :> 150) @@ (2 :> 300) @@ (3 :> 600) @@ (4 :> 1200) @@ (5 :> 2400)

COORD_MAP == (0 :> "Beam") @@ (1 :> "Instrument") @@ (2 :> "Ship") @@ (3 :> "Earth")

\* struct.unpack_from('<H', d, off)[0] in place of '<h'.
S16Unsigned(d, off) == U16(d, off)

\* struct.unpack_from('<h', d, off)[0]
S16(d, off) == IF U16(d, off) >= 32768 THEN U16(d, off) - 65536 ELSE U16(d, off)

\* The exception raised by the first read that does not fit the buffer, "none" if all
\* fit.  reads lists <<offset from o, width, exception>> in evaluation order: d[i]
\* raises IndexError, struct.unpack_from raises struct.error.
ReadFailure(d, o, reads) ==
  LET S == {i \in DOMAIN reads : ~CanUnpack(d, o + reads[i][1], reads[i][2])}
  IN  IF S = {} THEN "none" ELSE reads[CHOOSE i \in S : \A j \in S : i <= j][3]

FixedLeaderReads ==
  << <<2, 1, "IndexError">>, <<3, 1, "IndexError">>, <<4, 2, "struct.error">>,
     <<9, 1, "IndexError">>, <<10, 2, "struct.error">>, <<12, 2, "struct.error">>,
     <<14, 2, "struct.error">>, <<25, 1, "IndexError">> >>

_parse_fixed_leader(d, o) ==
  IF ReadFailure(d, o, FixedLeaderReads) # "none"
  THEN [error |-> Raise(ReadFailure(d, o, FixedLeaderReads), "_parse_fixed_leader"),
        value |-> NoLeader]
  ELSE
    LET cfg == U16(d, o + 4)
    IN  [error |-> NoError,
         value |-> [fw_version      |-> At(d, o + 2),
                    fw_revision     |-> At(d, o + 3),
                    sys_config      |-> cfg,
                    frequency_khz   |-> IF cfg % 8 \in DOMAIN FREQ_MAP THEN FREQ_MAP[cfg % 8] ELSE 0,
                    beam_angle      |-> IF (cfg \div 16) % 4 = 0 THEN 20 ELSE 30,
                    n_beams         |-> IF (cfg \div 16) % 2 = 0 THEN 4 ELSE 5,
                    orientation     |-> IF (cfg \div 128) % 2 = 1 THEN "Up" ELSE "Down",
                    n_cells         |-> At(d, o + 9),
                    pings_per_ens   |-> U16(d, o + 10),
                    cell_size_cm    |-> U16(d, o + 12),
                    blank_cm        |-> U16(d, o + 14),
                    coord_transform |-> COORD_MAP[(At(d, o + 25) \div 8) % 4]]]

VariableLeaderReads ==
  << <<2, 2, "struct.error">>, <<4, 1, "IndexError">>, <<5, 1, "IndexError">>,
     <<6, 1, "IndexError">>, <<7, 1, "IndexError">>, <<8, 1, "IndexError">>,
     <<9, 1, "IndexError">>, <<10, 1, "IndexError">>, <<11, 1, "IndexError">>,
     <<14, 2, "struct.error">>, <<18, 2, "struct.error">>, <<20, 2, "struct.error">>,
     <<22, 2, "struct.error">>, <<24, 2, "struct.error">>, <<26, 2, "struct.error">> >>

_parse_variable_leader(d, o) ==
  IF ReadFailure(d, o, VariableLeaderReads) # "none"
  THEN [error |-> Raise(ReadFailure(d, o, VariableLeaderReads), "_parse_variable_leader"),
        value |-> << >>]
  ELSE [error |-> NoError,
        value |-> [ensemble_number  |-> U16(d, o + 2) + 65536 * At(d, o + 11),
                   year             |-> IF At(d, o + 4) < 100 THEN 2000 + At(d, o + 4)
                                                              ELSE At(d, o + 4),
                   month            |-> At(d, o + 5),
                   day              |-> At(d, o + 6),
                   hour             |-> At(d, o + 7),
                   minute           |-> At(d, o + 8),
                   second           |-> At(d, o + 9),
                   hundredths       |-> At(d, o + 10),
                   depth_dm         |-> U16(d, o + 14),
                   heading_cdeg     |-> U16(d, o + 18),
                   pitch_cdeg       |-> S16(d, o + 20),
                   roll_cdeg        |-> S16(d, o + 22),
                   salinity_ppt     |-> U16(d, o + 24),
                   temperature_cdeg |-> S16(d, o + 26)]]

\* (n_cells, 4) int16 read at offset + 2; the first read past the buffer raises struct.error.
_parse_velocity(d, offset, n_cells) ==
  IF n_cells > 0 /\ ~CanUnpack(d, offset + 2, 8 * n_cells)
  THEN [error |-> Raise("struct.error", "_parse_velocity"), value |-> << >>]
  ELSE [error |-> NoError,
        value |-> [c \in 1..n_cells |->
                     [b \in 1..4 |-> S16(d, offset + 2 + ((c - 1) * 4 + (b - 1)) * 2)]]]

\* (n_cells, 4) uint8 read at offset + 2; the first read past the buffer raises IndexError.
CellBytes(d, offset, n_cells, at) ==
  IF n_cells > 0 /\ ~CanUnpack(d, offset + 2, 4 * n_cells)
  THEN [error |-> Raise("IndexError", at), value |-> << >>]
  ELSE [error |-> NoError,
        value |-> [c \in 1..n_cells |->
                     [b \in 1..4 |-> At(d, offset + 2 + (c - 1) * 4 + (b - 1))]]]

_parse_echo_intensity(d, offset, n_cells) == CellBytes(d, offset, n_cells, "_parse_echo_intensity")

_parse_correlation(d, offset, n_cells) == CellBytes(d, offset, n_cells, "_parse_correlation")

_parse_percent_good(d, offset, n_cells) == CellBytes(d, offset, n_cells, "_parse_percent_good")

BottomTrackReads ==
  << <<2, 2, "struct.error">>,
     <<16, 2, "struct.error">>, <<18, 2, "struct.error">>, <<20, 2, "struct.error">>,
     <<22, 2, "struct.error">>,
     <<24, 2, "struct.error">>, <<26, 2, "struct.error">>, <<28, 2, "struct.error">>,
     <<30, 2, "struct.error">>,
     <<32, 1, "IndexError">>, <<33, 1, "IndexError">>, <<34, 1, "IndexError">>,
     <<35, 1, "IndexError">>, <<36, 1, "IndexError">>, <<37, 1, "IndexError">>,
     <<38, 1, "IndexError">>, <<39, 1, "IndexError">>, <<40, 1, "IndexError">>,
     <<41, 1, "IndexError">>, <<42, 1, "IndexError">>, <<43, 1, "IndexError">> >>

_parse_bottom_track(d, o) ==
  IF ReadFailure(d, o, BottomTrackReads) # "none"
  THEN [error |-> Raise(ReadFailure(d, o, BottomTrackReads), "_parse_bottom_track"),
        value |-> << >>]
  ELSE [error |-> NoError,
        value |-> [bt_pings_per_ens |-> U16(d, o + 2),
                   bt_range_cm      |-> [b \in 1..4 |-> U16(d, o + 16 + 2 * (b - 1))],
                   bt_velocity_mms  |-> [b \in 1..4 |-> S16(d, o + 24 + 2 * (b - 1))],
                   bt_correlation   |-> [b \in 1..4 |-> At(d, o + 32 + (b - 1))],
                   bt_eval_amp      |-> [b \in 1..4 |-> At(d, o + 36 + (b - 1))],
                   bt_percent_good  |-> [b \in 1..4 |-> At(d, o + 40 + (b - 1))]]]

\* for j in range(n_dt) of pass 1, from index j: the fixed leader of the first sub-block
\* whose type is PD0_FIXED_LEADER, NoLeader if the ensemble has none.
RECURSIVE WalkLeader(_, _, _, _)
WalkLeader(d, p, j, n_dt) ==
  IF j >= n_dt THEN [error |-> NoError, value |-> NoLeader]
  ELSE IF ~CanUnpack(d, p + 6 + 2 * j, 2)
  THEN [error |-> Raise("struct.error", "parse_adc"), value |-> NoLeader]
  ELSE IF ~CanUnpack(d, p + U16(d, p + 6 + 2 * j), 2)
  THEN [error |-> Raise("struct.error", "parse_adc"), value |-> NoLeader]
  ELSE IF U16(d, p + U16(d, p + 6 + 2 * j)) = PD0_FIXED_LEADER
  THEN _parse_fixed_leader(d, p + U16(d, p + 6 + 2 * j))
  ELSE WalkLeader(d, p, j + 1, n_dt)

\* if fixed_leader is None, with the test left out: every ensemble's leader is read.
LeaderWantedAlways(fl) == TRUE

\* if fixed_leader is None
LeaderWanted(fl) == fl = NoLeader

\* while pos + 6 < len(data)
AdcScanning(d, p) == p + 6 < Len(d)

\* The iteration without the else branch (pos += 1): the cursor stays on a byte that
\* starts no marker.
AdcScanIterStuck(d, s) ==
  LET p == s.pos
      ens_size == U16(d, p + 2) + 2
  IN
  IF ~(At(d, p) = 127 /\ At(d, p + 1) = 127) THEN s
  ELSE IF p + ens_size > Len(d) THEN [s EXCEPT !.stop = TRUE]
  ELSE LET w == IF s.fixed_leader = NoLeader THEN WalkLeader(d, p, 0, At(d, p + 5))
                ELSE [error |-> NoError, value |-> NoLeader]
       IN  IF w.error # NoError
           THEN [s EXCEPT !.ensembles = Append(s.ensembles, p), !.error = w.error]
           ELSE [s EXCEPT !.ensembles = Append(s.ensembles, p),
                          !.fixed_leader = IF w.value = NoLeader THEN s.fixed_leader
                                                                 ELSE w.value,
                          !.pos = p + ens_size]

\* One iteration of the while loop of pass 1 on s = [pos, ensembles, fixed_leader, stop,
\* error]; stop is set by the break.
AdcScanIter(d, s) ==
  LET p == s.pos
  IN
  IF At(d, p) = 127 /\ At(d, p + 1) = 127
  THEN
    LET ens_size == U16(d, p + 2) + 2
    IN  IF p + ens_size > Len(d)
        THEN [s EXCEPT !.stop = TRUE]
        ELSE IF LeaderWanted(s.fixed_leader)
        THEN LET w == WalkLeader(d, p, 0, At(d, p + 5))
             IN  IF w.error # NoError
                 THEN [s EXCEPT !.ensembles = Append(s.ensembles, p), !.error = w.error]
                 ELSE [s EXCEPT !.ensembles = Append(s.ensembles, p),
                                !.fixed_leader = IF w.value = NoLeader THEN s.fixed_leader
                                                                       ELSE w.value,
                                !.pos = p + ens_size]
        ELSE [s EXCEPT !.ensembles = Append(s.ensembles, p), !.pos = p + ens_size]
  ELSE [s EXCEPT !.pos = p + 1]

RECURSIVE AdcScanFrom(_, _)
AdcScanFrom(d, s) ==
  IF s.error # NoError \/ s.stop \/ ~AdcScanning(d, s.pos) THEN s
  ELSE AdcScanFrom(d, AdcScanIter(d, s))

\* np.full((n_cells, 4), -32768), filled with zero instead.
MissingVelocityZero(n_cells) == [c \in 1..n_cells |-> [b \in 1..4 |-> 0]]

\* One row of np.full((n_ens, n_cells, 4), -32768, dtype=np.int16)
MissingVelocity(n_cells) == [c \in 1..n_cells |-> [b \in 1..4 |-> -32768]]

\* One row of np.zeros((n_ens, n_cells, 4), dtype=np.uint8)
MissingCells(n_cells) == [c \in 1..n_cells |-> [b \in 1..4 |-> 0]]

\* The fields allocated with np.empty.
LeaderInts ==
  {"ensemble_number", "year", "month", "day", "hour", "minute", "second", "hundredths",
   "salinity"}

LeaderFloats == {"heading", "pitch", "roll", "temperature", "depth"}

\* out = {...}: the output as allocated; h is what np.empty left in its cells.
Allocate(fl, n_ens, h) ==
  [f \in LeaderInts |-> [i \in 1..n_ens |-> h]]
  @@ [f \in LeaderFloats |-> [i \in 1..n_ens |-> [n |-> h, d |-> 1]]]
  @@ [fixed_leader    |-> fl,
      n_ensembles     |-> n_ens,
      n_cells         |-> fl.n_cells,
      velocity        |-> [i \in 1..n_ens |-> MissingVelocity(fl.n_cells)],
      echo_intensity  |-> [i \in 1..n_ens |-> MissingCells(fl.n_cells)],
      correlation     |-> [i \in 1..n_ens |-> MissingCells(fl.n_cells)],
      percent_good    |-> [i \in 1..n_ens |-> MissingCells(fl.n_cells)],
      bt_range_cm     |-> [i \in 1..n_ens |-> [b \in 1..4 |-> 0]],
      bt_velocity_mms |-> [i \in 1..n_ens |-> [b \in 1..4 |-> -32768]]]

\* arr[i] = v for a signed integer array of the given width: v if it fits, else the
\* wrapped value or OverflowError.
Stored(v, bits, mode) ==
  IF v < 2 ^ (bits - 1) THEN [error |-> NoError, value |-> v]
  ELSE IF mode = "wrap" THEN [error |-> NoError, value |-> v - 2 ^ bits]
  ELSE [error |-> Raise("OverflowError", "parse_adc"), value |-> v]

\* The assignments of the PD0_VARIABLE_LEADER branch, in order.
StoreLeader(o, i, vl, mode) ==
  LET narrow == <<"month", "day", "hour", "minute", "second", "hundredths">>
      bad8   == {x \in 1..Len(narrow) : Stored(vl[narrow[x]], 8, mode).error # NoError}
  IN  IF bad8 # {} THEN [error |-> Raise("OverflowError", "parse_adc"), out |-> o]
      ELSE IF Stored(vl.salinity_ppt, 16, mode).error # NoError
      THEN [error |-> Raise("OverflowError", "parse_adc"), out |-> o]
      ELSE [error |-> NoError,
            out |-> [o EXCEPT !.ensemble_number[i] = vl.ensemble_number,
                              !.year[i]        = vl.year,
                              !.month[i]       = Stored(vl.month, 8, mode).value,
                              !.day[i]         = Stored(vl.day, 8, mode).value,
                              !.hour[i]        = Stored(vl.hour, 8, mode).value,
                              !.minute[i]      = Stored(vl.minute, 8, mode).value,
                              !.second[i]      = Stored(vl.second, 8, mode).value,
                              !.hundredths[i]  = Stored(vl.hundredths, 8, mode).value,
                              !.heading[i]     = [n |-> vl.heading_cdeg, d |-> 100],
                              !.pitch[i]       = [n |-> vl.pitch_cdeg, d |-> 100],
                              !.roll[i]        = [n |-> vl.roll_cdeg, d |-> 100],
                              !.temperature[i] = [n |-> vl.temperature_cdeg, d |-> 100],
                              !.depth[i]       = [n |-> vl.depth_dm, d |-> 10],
                              !.salinity[i]    = Stored(vl.salinity_ppt, 16, mode).value]]

\* out[field][i] = r.value unless the decoder raised.
StoreBlock(o, field, i, r) ==
  IF r.error # NoError THEN [error |-> r.error, out |-> o]
  ELSE [error |-> NoError, out |-> [o EXCEPT ![field][i] = r.value]]

\* The if/elif chain of pass 2 for one sub-block of type dt_id at abs_off.
FillBlock(d, o, i, abs_off, dt_id, n_cells, mode) ==
  CASE dt_id = PD0_VARIABLE_LEADER ->
         LET r == _parse_variable_leader(d, abs_off)
         IN  IF r.error # NoError THEN [error |-> r.error, out |-> o]
             ELSE StoreLeader(o, i, r.value, mode)
    [] dt_id = PD0_VELOCITY ->
         StoreBlock(o, "velocity", i, _parse_velocity(d, abs_off, n_cells))
    [] dt_id = PD0_ECHO_INTENSITY ->
         StoreBlock(o, "echo_intensity", i, _parse_echo_intensity(d, abs_off, n_cells))
    [] dt_id = PD0_CORRELATION ->
         StoreBlock(o, "correlation", i, _parse_correlation(d, abs_off, n_cells))
    [] dt_id = PD0_PERCENT_GOOD ->
         StoreBlock(o, "percent_good", i, _parse_percent_good(d, abs_off, n_cells))
    [] dt_id = PD0_BOTTOM_TRACK ->
         LET r == _parse_bottom_track(d, abs_off)
         IN  IF r.error # NoError THEN [error |-> r.error, out |-> o]
             ELSE [error |-> NoError,
                   out |-> [o EXCEPT !.bt_range_cm[i] = r.value.bt_range_cm,
                                     !.bt_velocity_mms[i] = r.value.bt_velocity_mms]]
    [] OTHER -> [error |-> NoError, out |-> o]

\* for j in range(n_dt) of pass 2 for the ensemble at ens_pos (row i), from index j.
RECURSIVE FillFrom(_, _, _, _, _, _, _, _)
FillFrom(d, o, i, ens_pos, j, n_dt, n_cells, mode) ==
  IF j >= n_dt THEN [error |-> NoError, out |-> o]
  ELSE IF ~CanUnpack(d, ens_pos + 6 + 2 * j, 2)
  THEN [error |-> Raise("struct.error", "parse_adc"), out |-> o]
  ELSE IF ~CanUnpack(d, ens_pos + U16(d, ens_pos + 6 + 2 * j), 2)
  THEN [error |-> Raise("struct.error", "parse_adc"), out |-> o]
  ELSE
    LET abs_off == ens_pos + U16(d, ens_pos + 6 + 2 * j)
        r == FillBlock(d, o, i, abs_off, U16(d, abs_off), n_cells, mode)
    IN  IF r.error # NoError THEN r
        ELSE FillFrom(d, r.out, i, ens_pos, j + 1, n_dt, n_cells, mode)

\* One iteration of for i, ens_pos in enumerate(ensembles).
FillEnsemble(d, o, i, ens_pos, mode) ==
  FillFrom(d, o, i, ens_pos, 0, At(d, ens_pos + 5), o.n_cells, mode)

RECURSIVE FillAll(_, _, _, _, _)
FillAll(d, o, ens, i, mode) ==
  IF i > Len(ens) THEN [error |-> NoError, out |-> o]
  ELSE LET r == FillEnsemble(d, o, i, ens[i], mode)
       IN  IF r.error # NoError THEN r ELSE FillAll(d, r.out, ens, i + 1, mode)

AdcStart == [pos |-> 0, ensembles |-> << >>, fixed_leader |-> NoLeader, stop |-> FALSE,
             error |-> NoError]

\* The whole call: [error, out], for what np.empty left (h) and the NumPy release (mode).
parse_adc(d, h, mode) ==
  LET s == AdcScanFrom(d, AdcStart)
  IN  IF s.error # NoError THEN [error |-> s.error, out |-> << >>]
      ELSE IF s.fixed_leader = NoLeader
      THEN [error |-> Raise("ValueError", "parse_adc"), out |-> << >>]
      ELSE FillAll(d, Allocate(s.fixed_leader, Len(s.ensembles), h), s.ensembles, 1, mode)

\* What np.empty can leave in a cell.
Uninitialised == {0, 85}

\* How an out-of-range integer store ends.
StoreModes == {"wrap", "raise"}

\* while pos + 6 < len(data): one iteration of pass 1.
AdcScan ==
  /\ pc = "adc_scan"
  /\ AdcScanning(data, pos)
  /\ LET s == AdcScanIter(data, [pos |-> pos, ensembles |-> ensembles,
                                 fixed_leader |-> fixed_leader, stop |-> FALSE,
                                 error |-> NoError])
     IN  /\ pos' = s.pos
         /\ ensembles' = s.ensembles
         /\ fixed_leader' = s.fixed_leader
         /\ error' = s.error
         /\ pc' = IF s.error # NoError THEN "raised"
                  ELSE IF s.stop THEN "adc_scanned" ELSE "adc_scan"
  /\ UNCHANGED <<data, chunks, decode, records, rkeys, emitted, k, result, summary, ret,
                 uvars, svars, out, ei>>

\* Pass 1 is over: the loop condition failed or the break was taken.
AdcScanOver == pc = "adc_scanned" \/ (pc = "adc_scan" /\ ~AdcScanning(data, pos))

\* if fixed_leader is None: raise ValueError("No valid PD0 ensemble found")
AdcNoLeader ==
  /\ AdcScanOver
  /\ fixed_leader = NoLeader
  /\ error' = Raise("ValueError", "parse_adc")
  /\ pc' = "raised"
  /\ UNCHANGED <<rvars, uvars, svars, avars>>

\* n_ens = len(ensembles); n_cells = fixed_leader['n_cells']; out = {...}
AdcAllocate ==
  /\ AdcScanOver
  /\ fixed_leader # NoLeader
  /\ \E h \in Uninitialised : out' = Allocate(fixed_leader, Len(ensembles), h)
  /\ ei' = 0
  /\ pc' = "adc_fill"
  /\ UNCHANGED <<rvars, uvars, svars, error, ensembles, fixed_leader>>

\* for i, ens_pos in enumerate(ensembles): one iteration of pass 2.
AdcFill ==
  /\ pc = "adc_fill"
  /\ ei < Len(ensembles)
  /\ \E mode \in StoreModes :
       LET r == FillEnsemble(data, out, ei + 1, ensembles[ei + 1], mode)
       IN  IF r.error # NoError
           THEN /\ error' = r.error
                /\ pc' = "raised"
                /\ UNCHANGED <<out, ei>>
           ELSE /\ out' = r.out
                /\ ei' = ei + 1
                /\ UNCHANGED <<error, pc>>
  /\ UNCHANGED <<rvars, uvars, svars, ensembles, fixed_leader>>

\* return out
AdcReturn ==
  /\ pc = "adc_fill"
  /\ ei = Len(ensembles)
  /\ pc' = "adc_done"
  /\ ret' = out
  /\ UNCHANGED <<data, chunks, decode, pos, records, rkeys, emitted, k, result, summary,
                 error, uvars, svars, avars>>

NextAdc == AdcScan \/ AdcNoLeader \/ AdcAllocate \/ AdcFill \/ AdcReturn

----------------------------------------------------------------------------
(***************************************************************************)
(* Input buffers.  A buffer is the concatenation of at most MaxChunks      *)
(* (MaxRecs) chunks; a chunk is a well-formed frame or a run of other      *)
(* bytes.  chunks records the assembly for the statements about "a buffer  *)
(* of N valid frames"; the code reads data only.                           *)
(***************************************************************************)
LE16(n) == <<n % 256, n \div 256>>

Zeros(n) == [i \in 1..n |-> 0]

Frame(ck, rtype, payload) ==
  MAGIC \o LE16(ck) \o LE16(rtype) \o LE16(Len(payload)) \o payload

FrameChunk(ck, rtype, payload) ==
  [kind |-> "frame", cksum |-> ck, rtype |-> rtype, payload |-> payload,
   bytes |-> Frame(ck, rtype, payload)]

JunkChunk(bytes) ==
  [kind |-> "junk", cksum |-> 0, rtype |-> 0, payload |-> << >>, bytes |-> bytes]

\* Inputs of the scanner: short frames of unregistered types 0x0001 and 0x0005 and of
\* the Event Marker (empty payload), payloads that hold the marker or a whole frame,
\* stray bytes, and headers that declare more payload than can follow.
ScanChunks ==
  { FrameChunk(0, 1, << >>),
    FrameChunk(0, 1, <<7>>),
    FrameChunk(4660, REC_EVENT_MARKER, << >>),
    FrameChunk(0, 5, <<235, 144>>),
    FrameChunk(0, 1, <<1, 235, 144, 0, 0, 1, 0, 0, 0>>),
    FrameChunk(37099, 5, <<7, 9>>),
    JunkChunk(<<235>>),
    JunkChunk(<<144>>),
    JunkChunk(<<0, 0, 0>>),
    JunkChunk(<<235, 144, 0, 0, 1, 0, 255, 255>>),
    JunkChunk(<<235, 144, 235, 144, 1, 0, 5, 0>>) }

\* A 46-byte Navigation payload whose timestamp field (offset 16) holds the four bytes t.
NavPayload(t) == Zeros(16) \o t \o Zeros(26)

\* ">(Veh) 12:hi" behind the two leading bytes, null-terminated.
ModemPayload == <<1, 0, 62, 40, 86, 101, 104, 41, 32, 49, 50, 58, 104, 105, 0>>

\* Inputs of parse_rlf: frames of registered types with full-size and undersized
\* payloads, and frames of the unregistered types 0x0001 and 0xabcd.  The Navigation
\* timestamps are 0 and 1800 ms.
RlfChunks ==
  { FrameChunk(0, REC_NAV, NavPayload(<<0, 0, 0, 0>>)),
    FrameChunk(0, REC_NAV, NavPayload(<<8, 7, 0, 0>>)),
    FrameChunk(0, REC_NAV, Zeros(10)),
    FrameChunk(0, REC_GPS, Zeros(31) \o <<82, 0, 49>>),
    FrameChunk(0, REC_GPS, Zeros(16)),
    FrameChunk(0, REC_MODEM_LOG, ModemPayload),
    FrameChunk(0, REC_MODEM_LOG, <<1, 0, 120, 0>>),
    FrameChunk(0, REC_MISSION_LEGS, Zeros(48)),
    FrameChunk(0, REC_ACOUSTIC_FIX, Zeros(52)),
    FrameChunk(0, REC_EVENT_MARKER, << >>),
    FrameChunk(0, 1, <<7>>),
    FrameChunk(0, 43981, <<7, 9>>) }

\* Raw timestamps: around midnight, around the rollover threshold, with and without bit 31.
RawTimes ==
  { [b31 |-> 0, low |-> 0], [b31 |-> 0, low |-> 500], [b31 |-> 0, low |-> 1200],
    [b31 |-> 0, low |-> 1000500], [b31 |-> 0, low |-> 1000501],
    [b31 |-> 0, low |-> 86399000], [b31 |-> 0, low |-> 86399900],
    [b31 |-> 0, low |-> 86400500],
    [b31 |-> 1, low |-> 500], [b31 |-> 1, low |-> 86399900],
    [b31 |-> 0, low |-> 200000000] }

StartRlf(cs) ==
  /\ chunks = cs
  /\ data = Concat([i \in 1..Len(cs) |-> cs[i].bytes])
  /\ decode \in BOOLEAN
  /\ pc = "scan"
  /\ pos = 0
  /\ records = << >>
  /\ rkeys = << >>
  /\ emitted = << >>
  /\ k = 0
  /\ result = << >>
  /\ summary = << >>
  /\ ret = << >>
  /\ error = NoError
  /\ ts_raw = << >>
  /\ ts = << >>
  /\ ui = 0
  /\ t_out = << >>
  /\ target_type = 0
  /\ ref_type = 0
  /\ ref_t_hrs = << >>
  /\ ref_pos = << >>
  /\ target_pos = << >>
  /\ stamped = << >>
  /\ ensembles = << >>
  /\ fixed_leader = NoLeader
  /\ out = << >>
  /\ ei = 0

\* parse_rlf on a file of records.
Init == \E cs \in SeqsUpTo(RlfChunks, MaxRecs) : StartRlf(cs)

Spec == Init /\ [][NextRlf]_vars

\* parse_rlf on a buffer that exercises the scanner.
InitScan == \E cs \in SeqsUpTo(ScanChunks, MaxChunks) : StartRlf(cs)

SpecScan == InitScan /\ [][NextRlf]_vars

\* A counter sequence that crosses one midnight.
MidnightExample ==
  << [b31 |-> 0, low |-> 86399000], [b31 |-> 0, low |-> 86399900],
     [b31 |-> 0, low |-> 500], [b31 |-> 0, low |-> 1200] >>

\* unwrap_timestamps on an array of raw timestamps.
InitUnwrap ==
  /\ ts_raw \in SeqsUpTo(RawTimes, MaxTs) \cup {MidnightExample}
  /\ ts = << >>
  /\ ui = 0
  /\ t_out = << >>
  /\ pc = "unwrap"
  /\ error = NoError
  /\ chunks = << >>
  /\ data = << >>
  /\ decode = FALSE
  /\ pos = 0
  /\ records = << >>
  /\ rkeys = << >>
  /\ emitted = << >>
  /\ k = 0
  /\ result = << >>
  /\ summary = << >>
  /\ ret = << >>
  /\ target_type = 0
  /\ ref_type = 0
  /\ ref_t_hrs = << >>
  /\ ref_pos = << >>
  /\ target_pos = << >>
  /\ stamped = << >>
  /\ ensembles = << >>
  /\ fixed_leader = NoLeader
  /\ out = << >>
  /\ ei = 0

SpecUnwrap == InitUnwrap /\ [][NextUnwrap]_vars

\* Inputs of _stamp_by_position: frames of the types 0x0001, 0x0005 and 0x0009, stray
\* bytes and a header that declares more payload than can follow.
StampChunks ==
  { FrameChunk(0, 1, <<7>>),
    FrameChunk(0, 1, <<1, 2, 3>>),
    FrameChunk(0, 5, << >>),
    FrameChunk(0, 5, <<7, 9>>),
    FrameChunk(0, 9, <<0>>),
    JunkChunk(<<0, 0, 0>>),
    JunkChunk(<<235, 144, 0, 0, 1, 0, 255, 255>>) }

\* Frames of type 0x0001 at the offsets 0, 100 and 200 and a frame of type 0x0005 at 150.
StampExample ==
  << FrameChunk(0, 1, Zeros(92)), FrameChunk(0, 1, Zeros(42)),
     FrameChunk(0, 5, Zeros(42)), FrameChunk(0, 1, <<7>>) >>

\* Target frames before, between and after two reference frames.
StampBracketed ==
  << FrameChunk(0, 5, << >>), FrameChunk(0, 1, <<7>>), FrameChunk(0, 5, <<7, 9>>),
     FrameChunk(0, 1, <<1, 2, 3>>), FrameChunk(0, 5, << >>), FrameChunk(0, 9, <<0>>) >>

\* t hours as an exact quotient.
Hours(t) == [n |-> t, d |-> 1]

\* Reference times: of every length up to three, increasing, decreasing and constant.
StampTimes ==
  { << >>, <<Hours(1)>>, <<Hours(0), Hours(1)>>, <<Hours(2), Hours(0)>>,
    <<Hours(0), Hours(1), Hours(2)>>, <<Hours(1), Hours(1), Hours(1)>> }

\* _stamp_by_position on the buffer of the chunks cs, for a target and a reference type.
StartStamp(cs) ==
  /\ chunks = cs
  /\ data = Concat([i \in 1..Len(cs) |-> cs[i].bytes])
  /\ \E types \in {<<5, 1>>, <<1, 1>>} : target_type = types[1] /\ ref_type = types[2]
  /\ ref_t_hrs \in StampTimes
  /\ ref_pos = << >>
  /\ target_pos = << >>
  /\ stamped = << >>
  /\ ensembles = << >>
  /\ fixed_leader = NoLeader
  /\ out = << >>
  /\ ei = 0
  /\ pc = "stamp_scan"
  /\ pos = 0
  /\ error = NoError
  /\ decode = FALSE
  /\ records = << >>
  /\ rkeys = << >>
  /\ emitted = << >>
  /\ k = 0
  /\ result = << >>
  /\ summary = << >>
  /\ ret = << >>
  /\ ts_raw = << >>
  /\ ts = << >>
  /\ ui = 0
  /\ t_out = << >>

InitStamp ==
  \E cs \in SeqsUpTo(StampChunks, MaxFrames) \cup {StampExample, StampBracketed} : StartStamp(cs)

SpecStamp == InitStamp /\ [][NextStamp]_vars

\* A 32-byte Seabird CTD payload whose timestamp field (offset 8) holds the four bytes t.
CtdSbePayload(t) == Zeros(8) \o t \o Zeros(20)

\* The timestamps 0, 1800 and 3600 ms as little-endian uint32.
LogTimes == << <<0, 0, 0, 0>>, <<8, 7, 0, 0>>, <<16, 14, 0, 0>> >>

\* Orders of three Navigation frames (A), three Seabird CTD frames (B) and two modem
\* log frames (C) in a log file.
LogOrders ==
  { <<"A", "B", "C", "A", "B", "C", "A", "B">>,
    <<"A", "C", "B", "B", "A", "C", "B", "A">>,
    <<"B", "A", "A", "C", "C", "B", "A", "B">>,
    <<"C", "A", "B", "A", "B", "A", "B", "C">>,
    <<"A", "A", "A", "B", "B", "B", "C", "C">>,
    <<"B", "C", "A", "B", "A", "B", "A", "C">> }

\* Five bytes that are not part of any frame.
GapBytes == { Zeros(5), <<1, 2, 3, 4, 5>>, <<144, 235, 0, 144, 235>>, <<235, 144, 0, 0, 0>> }

\* How many of the first i entries of order are the letter x.
Occurrence(order, i, x) == Cardinality({j \in 1..i : order[j] = x})

\* The i-th frame of a log in the given order; the clocked frames carry the timestamps
\* of LogTimes in file order.
LogFrame(order, i) ==
  CASE order[i] = "A" -> FrameChunk(0, REC_NAV, NavPayload(LogTimes[Occurrence(order, i, "A")]))
    [] order[i] = "B" ->
         FrameChunk(0, REC_CTD_SBE, CtdSbePayload(LogTimes[Occurrence(order, i, "B")]))
    [] order[i] = "C" -> FrameChunk(0, REC_MODEM_LOG, ModemPayload)

\* The frames of a log in the given order with the bytes gap between each pair of frames.
LogChunks(order, gap) ==
  [i \in 1..(2 * Len(order) - 1) |->
     IF i % 2 = 1 THEN LogFrame(order, (i + 1) \div 2) ELSE JunkChunk(gap)]

\* parse_rlf on a log of eight frames with five stray bytes between each pair.
InitLog == \E order \in LogOrders : \E gap \in GapBytes : StartRlf(LogChunks(order, gap))

SpecLog == InitLog /\ [][NextRlf]_vars

\* Encodings of float32 values: the sidescan sentinel, -32.77 and -32.76 next to it,
\* 28.5, -1.0, 45.5, 0 and a NaN.
Raw32 ==
  [sentinel |-> <<111, 18, 3, 194>>, below |-> <<123, 20, 3, 194>>,
   above |-> <<61, 10, 3, 194>>, warm |-> <<0, 0, 228, 65>>, bad |-> <<0, 0, 128, 191>>,
   north |-> <<0, 0, 54, 66>>, zero |-> <<0, 0, 0, 0>>, nan |-> <<0, 0, 192, 127>>]

\* Encodings of float64 values: 0, 10.0, 45.5, -70.25 and -120.5.
Raw64 ==
  [zero |-> Zeros(8), ten |-> <<0, 0, 0, 0, 0, 0, 36, 64>>,
   north |-> <<0, 0, 0, 0, 0, 192, 70, 64>>, east |-> <<0, 0, 0, 0, 0, 144, 81, 192>>,
   west |-> <<0, 0, 0, 0, 0, 32, 94, 192>>]

\* A 55-byte sidescan payload with the given altitude, depth and temperature.
SidescanPayload(altitude, depth, temperature) ==
  Zeros(8) \o altitude \o depth \o Zeros(16) \o temperature \o Zeros(2) \o Raw32.north
  \o Zeros(13)

\* A 57-byte Nav/Acoustic payload with the given DVL heading, DVL sound speed, latitude
\* and longitude.
NavAcousticPayload(heading_dvl, sound_speed_dvl, lat, lon) ==
  Zeros(8) \o heading_dvl \o sound_speed_dvl \o Zeros(8) \o lat \o lon \o Raw32.north
  \o Raw32.warm \o Zeros(9)

\* Inputs of the decoders that mask sentinels: sidescan and Nav/Acoustic frames whose
\* fields hold the sentinel, values next to it, ordinary values and a NaN, one
\* undersized sidescan payload and stray bytes.
SentinelChunks ==
  { FrameChunk(0, REC_SIDESCAN, SidescanPayload(Raw32.sentinel, Raw32.sentinel, Raw32.sentinel)),
    FrameChunk(0, REC_SIDESCAN, SidescanPayload(Raw32.north, Raw32.sentinel, Raw32.warm)),
    FrameChunk(0, REC_SIDESCAN, SidescanPayload(Raw32.above, Raw32.warm, Raw32.below)),
    FrameChunk(0, REC_SIDESCAN, SidescanPayload(Raw32.zero, Raw32.nan, Raw32.warm)),
    FrameChunk(0, REC_SIDESCAN, Zeros(40)),
    FrameChunk(0, REC_NAV_ACOUSTIC,
               NavAcousticPayload(Raw32.bad, Raw32.bad, Raw64.zero, Raw64.zero)),
    FrameChunk(0, REC_NAV_ACOUSTIC,
               NavAcousticPayload(Raw32.north, Raw32.warm, Raw64.north, Raw64.west)),
    FrameChunk(0, REC_NAV_ACOUSTIC,
               NavAcousticPayload(Raw32.bad, Raw32.warm, Raw64.ten, Raw64.east)),
    FrameChunk(0, REC_NAV_ACOUSTIC,
               NavAcousticPayload(Raw32.nan, Raw32.zero, Raw64.north, Raw64.zero)),
    JunkChunk(<<1, 2, 3>>) }

\* parse_rlf on a buffer of at most MaxMasked sidescan and Nav/Acoustic chunks.
InitSentinel == \E cs \in SeqsUpTo(SentinelChunks, MaxMasked) : StartRlf(cs)

SpecSentinel == InitSentinel /\ [][NextRlf]_vars

\* text, null-padded to n bytes.
Padded(text, n) == text \o Zeros(n - Len(text))

\* A 21-byte Mission Modes payload, a 13-byte Sensor Names payload, a 23-byte Sensor
\* Types payload, a 24-byte Data Channels payload and a 46-byte ECO Calibration payload.
MissionModePayload(idx, name) == <<idx, 0, 0, 0>> \o Padded(name, 17)

SensorNamePayload(name) == Padded(name, 13)

SensorTypePayload(code, name) == <<code>> \o Padded(name, 22)

DataChannelPayload(idx, name, rate_ms) ==
  LE16(idx) \o Padded(name, 20) \o LE16(rate_ms)

EcoCalPayload(channel, index) ==
  Padded(channel, 17) \o Padded(<<67>>, 17) \o <<index, 1, 0, 0>> \o <<0, 0, 128, 63>>
  \o Zeros(4)

\* Inputs of the table decoders: per table two records of one key with different
\* content (a buffer may hold a chunk more than once), an empty sensor name, a second
\* data channel name, an undersized Data Channels payload and stray bytes.
TableChunks ==
  { FrameChunk(0, REC_MISSION_MODES, MissionModePayload(14, <<78>>)),
    FrameChunk(0, REC_MISSION_MODES, MissionModePayload(14, <<77>>)),
    FrameChunk(0, REC_SENSOR_NAMES, SensorNamePayload(<<65>>)),
    FrameChunk(0, REC_SENSOR_NAMES, SensorNamePayload(<<66>>)),
    FrameChunk(0, REC_SENSOR_NAMES, SensorNamePayload(<< >>)),
    FrameChunk(0, REC_SENSOR_TYPES, SensorTypePayload(22, <<65>>)),
    FrameChunk(0, REC_SENSOR_TYPES, SensorTypePayload(22, <<66>>)),
    FrameChunk(0, REC_DATA_CHANNELS, DataChannelPayload(1, <<65>>, 100)),
    FrameChunk(0, REC_DATA_CHANNELS, DataChannelPayload(1, <<65>>, 200)),
    FrameChunk(0, REC_DATA_CHANNELS, DataChannelPayload(1, <<66>>, 100)),
    FrameChunk(0, REC_DATA_CHANNELS, Zeros(4)),
    FrameChunk(0, REC_ECO_CAL, EcoCalPayload(<<82>>, 0)),
    FrameChunk(0, REC_ECO_CAL, EcoCalPayload(<<66>>, 0)),
    JunkChunk(<<1, 2, 3>>) }

\* parse_rlf on a buffer of at most MaxTables table chunks.
InitTables == \E cs \in SeqsUpTo(TableChunks, MaxTables) : StartRlf(cs)

SpecTables == InitTables /\ [][NextRlf]_vars

\* A sub-block of an ensemble: its type tag and the bytes behind it.
Block(dt_id, body) == LE16(dt_id) \o body

\* A 26-byte fixed leader with the given system configuration and cell count.
FixedLeaderBlock(cfg, n_cells) ==
  Block(PD0_FIXED_LEADER, <<51, 40>> \o LE16(cfg) \o Zeros(3) \o <<n_cells>>
                          \o LE16(1) \o LE16(100) \o LE16(44) \o Zeros(9) \o <<24>>)

\* A 28-byte variable leader: ensemble number lo + 65536 * hi, the clock bytes and the
\* salinity; heading 90.00, pitch -1.00, depth 1.5.
VariableLeaderBlock(lo, hi, clock, salinity) ==
  Block(PD0_VARIABLE_LEADER,
        LE16(lo) \o <<26>> \o <<clock, clock, clock, clock, clock, clock>> \o <<hi>>
        \o Zeros(2) \o LE16(15) \o Zeros(2) \o LE16(9000) \o LE16(65436) \o LE16(0)
        \o LE16(salinity) \o LE16(2150))

\* A velocity sub-block of the given cells of four unsigned 16-bit encodings each.
VelocityBlock(cells) ==
  Block(PD0_VELOCITY, Concat([c \in 1..Len(cells) |-> Concat([b \in 1..4 |-> LE16(cells[c][b])])]))

\* A per-cell byte sub-block (correlation, echo intensity or percent-good).
CellBlock(dt_id, cells) == Block(dt_id, Concat(cells))

\* A 44-byte bottom-track sub-block with the given ranges and velocity encodings.
BottomTrackBlock(ranges, vels) ==
  Block(PD0_BOTTOM_TRACK, LE16(1) \o Zeros(12)
        \o Concat([b \in 1..4 |-> LE16(ranges[b])]) \o Concat([b \in 1..4 |-> LE16(vels[b])])
        \o Zeros(12))

\* Offset of the i-th sub-block of an ensemble with the given sub-blocks.
RECURSIVE BlockOffset(_, _)
BlockOffset(blocks, i) ==
  IF i <= 1 THEN 6 + 2 * Len(blocks)
  ELSE BlockOffset(blocks, i - 1) + Len(blocks[i - 1])

\* A PD0 ensemble: 7F 7F, the byte count, a spare byte, the number of sub-blocks, the
\* offset table, the sub-blocks and two checksum bytes.
Ensemble(blocks) ==
  <<127, 127>> \o LE16(6 + 2 * Len(blocks) + Len(Concat(blocks))) \o <<0, Len(blocks)>>
  \o Concat([i \in 1..Len(blocks) |-> LE16(BlockOffset(blocks, i))])
  \o Concat(blocks) \o <<0, 0>>

EnsembleChunk(blocks) ==
  [kind |-> "ensemble", cksum |-> 0, rtype |-> 0, payload |-> << >>, bytes |-> Ensemble(blocks)]

\* Inputs of parse_adc: ensembles with and without a fixed leader, with cell counts 1
\* and 2, with and without each kind of sub-block, an ensemble with no sub-block, one
\* whose offset table points past the buffer, a marker that declares more bytes than
\* follow, a marker that declares a length of 0, and a stray byte.
AdcChunks ==
  { EnsembleChunk(<< FixedLeaderBlock(74, 1), VariableLeaderBlock(7, 1, 12, 35),
                     VelocityBlock(<< <<100, 65436, 32768, 0>> >>) >>),
    EnsembleChunk(<< FixedLeaderBlock(202, 2),
                     VelocityBlock(<< <<1, 2, 3, 4>>, <<5, 6, 7, 8>> >>) >>),
    EnsembleChunk(<< VariableLeaderBlock(8, 0, 13, 35),
                     CellBlock(PD0_CORRELATION, << <<9, 9, 9, 9>> >>) >>),
    EnsembleChunk(<< BottomTrackBlock(<<500, 0, 500, 500>>, <<10, 32768, 65526, 0>>),
                     CellBlock(PD0_ECHO_INTENSITY, << <<1, 2, 3, 4>>, <<5, 6, 7, 8>> >>),
                     CellBlock(PD0_PERCENT_GOOD, << <<100, 100, 100, 100>>, <<0, 0, 0, 0>> >>) >>),
    EnsembleChunk(<< >>),
    [kind |-> "ensemble", cksum |-> 0, rtype |-> 0, payload |-> << >>,
     bytes |-> <<127, 127, 6, 0, 0, 1, 255, 255>>],
    JunkChunk(<<127, 127, 255, 0, 0, 0, 0>>),
    JunkChunk(<<127, 127, 0, 0, 0, 0, 0>>),
    JunkChunk(<<0>>) }

\* An ensemble with cell count 10 and a velocity sub-block of 10 x 4 values, followed by
\* an ensemble with no velocity sub-block.
AdcExample ==
  << EnsembleChunk(<< FixedLeaderBlock(74, 10),
                      VelocityBlock([c \in 1..10 |-> [b \in 1..4 |-> 10 * c + b]]) >>),
     EnsembleChunk(<< VariableLeaderBlock(9, 0, 14, 35) >>) >>

\* One ensemble whose variable leader holds the largest ensemble number, clock bytes of
\* 200 and a salinity of 40000.
AdcWide ==
  << EnsembleChunk(<< FixedLeaderBlock(74, 1), VariableLeaderBlock(65535, 255, 200, 40000) >>) >>

\* parse_adc on a file of ensembles.
StartAdc(cs) ==
  /\ chunks = cs
  /\ data = Concat([i \in 1..Len(cs) |-> cs[i].bytes])
  /\ pc = "adc_scan"
  /\ pos = 0
  /\ ensembles = << >>
  /\ fixed_leader = NoLeader
  /\ out = << >>
  /\ ei = 0
  /\ error = NoError
  /\ decode = FALSE
  /\ records = << >>
  /\ rkeys = << >>
  /\ emitted = << >>
  /\ k = 0
  /\ result = << >>
  /\ summary = << >>
  /\ ret = << >>
  /\ ts_raw = << >>
  /\ ts = << >>
  /\ ui = 0
  /\ t_out = << >>
  /\ target_type = 0
  /\ ref_type = 0
  /\ ref_t_hrs = << >>
  /\ ref_pos = << >>
  /\ target_pos = << >>
  /\ stamped = << >>

InitAdc == \E cs \in SeqsUpTo(AdcChunks, MaxEns) \cup {AdcExample, AdcWide} : StartAdc(cs)

SpecAdc == InitAdc /\ [][NextAdc]_vars

\* parse_rlf on the eight-frame logs and on buffers of at most MaxScans chunks that
\* exercise the scanner or hold a Navigation or modem log frame.
InitRescan ==
  \/ InitLog
  \/ \E cs \in SeqsUpTo(ScanChunks \cup { FrameChunk(0, REC_NAV, NavPayload(<<8, 7, 0, 0>>)),
                                          FrameChunk(0, REC_MODEM_LOG, ModemPayload) },
                         MaxScans) : StartRlf(cs)

SpecRescan == InitRescan /\ [][NextRlf]_vars

\* The three scans together: parse_rlf, _stamp_by_position and parse_adc, each on a
\* buffer of at most MaxScans of its chunks.  The calls are sequential code, so a step that can be taken is taken.
InitScanners ==
  \/ \E cs \in SeqsUpTo(ScanChunks, MaxScans) : StartRlf(cs)
  \/ \E cs \in SeqsUpTo(StampChunks, MaxScans) : StartStamp(cs)
  \/ \E cs \in SeqsUpTo(AdcChunks, MaxScans) : StartAdc(cs)

NextScanners == NextRlf \/ NextStamp \/ NextAdc

SpecScanners == InitScanners /\ [][NextScanners]_vars /\ WF_vars(NextScanners)

----------------------------------------------------------------------------
(***************************************************************************)
(* Vocabulary of the properties.                                           *)
(***************************************************************************)
\* The buffer was assembled from well-formed frames only.
AllFrames == \A i \in 1..Len(chunks) : chunks[i].kind = "frame"

\* Offset of the first byte of the i-th chunk.
RECURSIVE ChunkStart(_)
ChunkStart(i) == IF i <= 1 THEN 0 ELSE ChunkStart(i - 1) + Len(chunks[i - 1].bytes)

\* The payloads of the chunks of type t, in file order.
PayloadsOf(t) ==
  LET sel == SelectSeq(chunks, LAMBDA c : c.kind = "frame" /\ c.rtype = t)
  IN  [i \in 1..Len(sel) |-> sel[i].payload]

FrameTypes == {chunks[i].rtype : i \in {j \in 1..Len(chunks) : chunks[j].kind = "frame"}}

\* The marker EB 90 lies at offset p of d.
MarkerAt(d, p) == InBuf(d, p) /\ InBuf(d, p + 1) /\ At(d, p) = 235 /\ At(d, p + 1) = 144

\* A marker with a whole header lies at p and declares more payload than the buffer holds.
DanglingAt(d, p) ==
  MarkerAt(d, p) /\ p + 8 <= Len(d) /\ p + 8 + U16(d, p + 6) > Len(d)

\* The first n chunks are frames and chunk n + 1 is a dangling header.
DanglingAfter(n) ==
  /\ n + 1 <= Len(chunks)
  /\ \A i \in 1..n : chunks[i].kind = "frame"
  /\ chunks[n + 1].kind = "junk"
  /\ DanglingAt(data, ChunkStart(n + 1))

\* The i-th emitted frame is the i-th chunk: its place, its type code and its payload.
EmittedIsChunk(i) ==
  /\ emitted[i].start = ChunkStart(i)
  /\ emitted[i].rtype = chunks[i].rtype
  /\ emitted[i].payload = chunks[i].payload

Scanned == pc \in {"dispatch", "finish", "done"} \/ (pc = "raised" /\ error.at # "parse_raw_records")

----------------------------------------------------------------------------
(***************************************************************************)
(* Properties of parse_raw_records (checked under SpecScan).               *)
(***************************************************************************)
\* C1: for a buffer that is the concatenation of N valid frames and nothing else, the
\* scanner emits exactly N frames, each with its own type code and its own payload,
\* and the payloads of each type appear in file order.
C1_ExactlyTheFrames ==
  (Scanned /\ AllFrames) =>
    /\ Len(emitted) = Len(chunks)
    /\ \A i \in 1..Len(chunks) : i <= Len(emitted) => EmittedIsChunk(i)
    /\ DOMAIN records = FrameTypes
    /\ \A t \in FrameTypes : t \in DOMAIN records /\ records[t] = PayloadsOf(t)

\* C2: in a buffer of N valid frames in which a payload holds the marker bytes EB 90
\* (and bytes after them), the scanner still emits exactly N frames, at the frames'
\* boundaries.
C2_MarkerInPayloadKeepsCount ==
  (Scanned /\ AllFrames
     /\ \E i \in 1..Len(chunks) :
          \E q \in 0..Len(chunks[i].payload) : MarkerAt(chunks[i].payload, q)) =>
    /\ Len(emitted) = Len(chunks)
    /\ \A i \in 1..Len(chunks) : i <= Len(emitted) => emitted[i].start = ChunkStart(i)

\* C3 as stated: N valid frames followed by a dangling partial frame and arbitrary
\* remaining bytes give exactly the N valid frames.
C3_ExactlyNBeforeDangling ==
  \A n \in 0..Len(chunks) : (Scanned /\ DanglingAfter(n)) => Len(emitted) = n

\* C3 as amended: the N valid frames are the first N frames emitted; no frame is emitted
\* at the dangling marker and no emitted frame is truncated or runs past the buffer; and
\* exactly N frames are emitted when the bytes after the dangling marker hold no further
\* marker EB 90.
C3_DanglingDropped ==
  \A n \in 0..Len(chunks) : (Scanned /\ DanglingAfter(n)) =>
    LET s == ChunkStart(n + 1)
    IN  /\ Len(emitted) >= n
        /\ \A i \in 1..n : i <= Len(emitted) => EmittedIsChunk(i)
        /\ \A i \in 1..Len(emitted) :
             /\ emitted[i].start # s
             /\ emitted[i].start + 8 + emitted[i].plen <= Len(data)
             /\ Len(emitted[i].payload) = emitted[i].plen
        /\ (\A q \in (s + 1)..Len(data) : ~MarkerAt(data, q)) => Len(emitted) = n

\* Witness of C3: a scan that ended on one or more valid frames followed by a dangling
\* header whose bytes yield a further frame.
C3_Witness ==
  \E n \in 1..Len(chunks) : Scanned /\ DanglingAfter(n) /\ Len(emitted) > n

\* C4: the scanner raises no error on any buffer, and an iteration that finds the marker
\* at the cursor with cursor + 8 + declared length beyond the buffer emits no frame and
\* advances the cursor by exactly one byte.
C4_NoErrorOneByteAdvance ==
  /\ [](error.at # "parse_raw_records")
  /\ [][(Scan /\ DanglingAt(data, pos)) =>
          (pos' = pos + 1 /\ emitted' = emitted /\ records' = records)]_vars

\* Witness of C4: the cursor has just stepped over a dangling marker.
C4_Witness ==
  /\ pc = "scan"
  /\ pos >= 1
  /\ DanglingAt(data, pos - 1)
  /\ \A i \in 1..Len(emitted) : emitted[i].start + 8 + emitted[i].plen <= pos - 1

\* The buffer d with the checksum field of the frame at p set to ck.
WithCksum(d, p, ck) ==
  [i \in 1..Len(d) |-> IF i = p + 3 THEN ck % 256 ELSE IF i = p + 4 THEN ck \div 256 ELSE d[i]]

RECURSIVE WithCksums(_, _, _)
WithCksums(d, ps, ck) ==
  IF ps = {} THEN d
  ELSE LET p == CHOOSE x \in ps : TRUE IN WithCksums(WithCksum(d, p, ck), ps \ {p}, ck)

\* Checksum values tried: zero, one, the marker bytes EB 90, all ones.
CkValues == {0, 1, 37099, 65535}

----------------------------------------------------------------------------
(***************************************************************************)
(* Properties of parse_rlf (checked under Spec).                           *)
(***************************************************************************)
\* The value of a hex digit character.
HexVal(ch) == CHOOSE v \in 0..15 : HexDigits[v + 1] = ch

\* nm is 'Unknown_0x' followed by the four hex digits of t.
IsUnknownNameOf(nm, t) ==
  /\ Len(nm) = 5
  /\ nm[1] = "Unknown_0x"
  /\ \A i \in 2..5 : nm[i] \in {HexDigits[j] : j \in 1..16}
  /\ 4096 * HexVal(nm[2]) + 256 * HexVal(nm[3]) + 16 * HexVal(nm[4]) + HexVal(nm[5]) = t

\* The types found by the scanner that have no registered decoder.
UnknownTypes == {t \in DOMAIN records : t \notin DOMAIN _DECODERS}

\* C6: with decode=True every type code without a registered decoder is kept in the
\* result under 'Unknown_0x<4 hex digits>' as the list of its raw payloads in file
\* order, and no error is raised for it: an error comes from a registered decoder only.
C6_UnknownKeptRaw ==
  /\ (pc = "done" /\ decode) =>
       \A t \in UnknownTypes :
         \E nm \in DOMAIN ret :
           /\ IsUnknownNameOf(nm, t)
           /\ ret[nm].kind = "raw"
           /\ ret[nm].val = records[t]
           /\ ret[nm].val = parse_raw_records(data).records[t]
  /\ pc = "raised" =>
       \E t \in DOMAIN records : t \in DOMAIN _DECODERS /\ error.at = _DECODERS[t]

\* Witness of C6: a returned result of a file with two or more frames of one
\* unregistered type and a frame of another.
C6_Witness ==
  /\ pc = "done"
  /\ decode
  /\ Cardinality(UnknownTypes) = 2
  /\ \E t \in UnknownTypes : Len(records[t]) >= 2

\* The nominal payload size of the registered types of the input.
NominalSize(t) ==
  CASE t = REC_NAV -> 46
    [] t = REC_GPS -> 16
    [] t = REC_MISSION_LEGS -> 48
    [] t = REC_ACOUSTIC_FIX -> 52
    [] OTHER -> 0

\* C7: a frame of a registered type whose payload is too short for a declared field
\* does not abort the parse: parse_rlf still returns.
C7_UndersizedDoesNotAbort ==
  (\E t \in DOMAIN records : \E i \in 1..Len(records[t]) :
      t \in DOMAIN _DECODERS /\ Len(records[t][i]) < NominalSize(t))
    => pc # "raised"

\* The registered types of the input that decode to a structure of parallel arrays.
ParallelArrayTypes == {REC_NAV, REC_GPS, REC_MODEM_LOG, REC_MISSION_LEGS, REC_ACOUSTIC_FIX}

\* C8: every array or list of a type decoded into parallel arrays has length N, the
\* number of frames of that type the scanner emitted.
C8_ParallelArraysSameLength ==
  (pc = "done" /\ decode) =>
    \A t \in ParallelArrayTypes \cap DOMAIN records :
      \A f \in DOMAIN ret[RECORD_NAMES[t]].val :
        Len(ret[RECORD_NAMES[t]].val[f]) = Len(records[t])

\* The type code a summary row's 'type_hex' spells.
TypeOfHex(h) == 4096 * HexVal(h[2]) + 256 * HexVal(h[3]) + 16 * HexVal(h[4]) + HexVal(h[5])

\* C9: with decode=True the result's '_raw' is the scanner's mapping and '_summary' has
\* exactly one row per type code of '_raw', with that type's number of payloads and the
\* length of its first payload; with decode=False the scanner's mapping is returned.
C9_RawAndSummary ==
  pc = "done" =>
    LET raw == parse_raw_records(data).records
    IN  IF decode
        THEN /\ <<"_raw">> \in DOMAIN ret
             /\ <<"_summary">> \in DOMAIN ret
             /\ ret[<<"_raw">>].val = raw
             /\ LET sm == ret[<<"_summary">>].val
                IN  /\ Cardinality(DOMAIN sm) = Cardinality(DOMAIN raw)
                    /\ \A t \in DOMAIN raw :
                         \E nm \in DOMAIN sm :
                           /\ TypeOfHex(sm[nm].type_hex) = t
                           /\ sm[nm].count = Len(raw[t])
                           /\ sm[nm].payload_bytes = Len(raw[t][1])
        ELSE ret = raw

\* Witness of C9: a returned result with two or more types, one of them with two
\* payloads of different lengths.
C9_Witness ==
  /\ pc = "done"
  /\ decode
  /\ Cardinality(DOMAIN records) >= 2
  /\ \E t \in DOMAIN records :
       Len(records[t]) >= 2 /\ Len(records[t][1]) # Len(records[t][2])

----------------------------------------------------------------------------
(***************************************************************************)
(* Properties of unwrap_timestamps (checked under SpecUnwrap).             *)
(***************************************************************************)
\* a <= b for two quotients over the same denominator.
SameDenLeq(a, b) == a.d = b.d /\ a.d > 0 /\ a.n <= b.n

\* C10 as stated: the output is non-decreasing and its first element is exactly zero.
C10_NonDecreasingFromZero ==
  pc = "unwrapped" =>
    /\ t_out[1].n = 0
    /\ \A i \in 1..(Len(t_out) - 1) : SameDenLeq(t_out[i], t_out[i + 1])

\* How far the raw value, bit 31 aside, falls from index i to i + 1 (<= 0: it does not).
Drop(i) == ts_raw[i].low - ts_raw[i + 1].low

\* C10 as amended: the first element is exactly zero, and output[i] <= output[i+1] at
\* every i where the raw value (bit 31 masked) does not fall, or falls by more than
\* 1,000,000 ms and at most 86,400,000 ms; at every other i the output decreases.
C10_ZeroFirstMonotoneExceptSmallDrops ==
  pc = "unwrapped" =>
    /\ Len(t_out) = Len(ts_raw)
    /\ t_out[1].n = 0
    /\ \A i \in 1..(Len(t_out) - 1) :
         IF Drop(i) <= 0 \/ (Drop(i) > 1000000 /\ Drop(i) <= 86400000)
         THEN SameDenLeq(t_out[i], t_out[i + 1])
         ELSE ~SameDenLeq(t_out[i], t_out[i + 1]) /\ SameDenLeq(t_out[i + 1], t_out[i])

\* Witness of C10: an output over a midnight rollover followed by a small backward step.
C10_Witness ==
  /\ pc = "unwrapped"
  /\ Len(ts_raw) >= 3
  /\ Drop(1) > 1000000
  /\ Drop(2) > 0
  /\ Drop(2) <= 1000000

\* The number of indices 2..i at which the masked raw value falls below its
\* predecessor by more than 1,000,000 ms.
Crossings(i) ==
  Cardinality({j \in 2..i : ts_raw[j - 1].low - ts_raw[j].low > 1000000})

\* C11: every index at which the value falls below its predecessor by more than
\* 1,000,000 ms adds 86,400,000 ms to that value and to every later one, cumulatively,
\* and smaller backward steps add nothing: after the iterations 1..ui-1 the working
\* value at j carries one day per crossing up to min(j, ui), and the output at i is
\* (corrected[i] - corrected[0]) / 3,600,000.  For [86399000, 86399900, 500, 1200] the
\* third and fourth outputs exceed the second.
C11_DayPerCrossingCumulative ==
  /\ pc = "unwrap_loop" =>
        \A j \in 1..Len(ts) : ts[j] = ts_raw[j].low + DAY_MS * Crossings(Min(j, ui))
  /\ pc = "unwrapped" =>
        /\ \A i \in 1..Len(ts_raw) :
              t_out[i] = [n |-> (ts_raw[i].low + DAY_MS * Crossings(i)) - ts_raw[1].low,
                          d |-> HOUR_MS]
        /\ ts_raw = MidnightExample =>
              /\ t_out[3].n > t_out[2].n
              /\ t_out[4].n > t_out[2].n
              /\ SameDenLeq(t_out[2], t_out[3])
              /\ SameDenLeq(t_out[2], t_out[4])

\* Witness of C11: the output for the sequence that crosses one midnight.
C11_Witness ==
  /\ pc = "unwrapped"
  /\ ts_raw = MidnightExample
  /\ Crossings(4) = 1

\* The raw sequence with bit 31 inverted at the indices in S.
FlipBit31(raw, S) ==
  [i \in 1..Len(raw) |-> IF i \in S THEN [b31 |-> 1 - raw[i].b31, low |-> raw[i].low]
                                    ELSE raw[i]]

\* C12: bit 31 of every raw value is ignored: the working array before rollover
\* detection holds each raw value mod 2^31, and raw sequences that differ only in
\* bit 31 of some elements produce the same output.
C12_Bit31Ignored ==
  /\ (pc = "unwrap_loop" /\ ui = 1) =>
        \A i \in 1..Len(ts_raw) : ts[i] = ts_raw[i].low
  /\ pc = "unwrapped" =>
        \A S \in SUBSET (1..Len(ts_raw)) :
          LET other == unwrap_timestamps(FlipBit31(ts_raw, S))
          IN  other.error = NoError /\ other.value = t_out

\* Witness of C12: an output for a sequence in which bit 31 is set on one element and
\* clear on another.
C12_Witness ==
  /\ pc = "unwrapped"
  /\ \E i, j \in 1..Len(ts_raw) : ts_raw[i].b31 = 1 /\ ts_raw[j].b31 = 0

----------------------------------------------------------------------------
(***************************************************************************)
(* Properties of _stamp_by_position (checked under SpecStamp).             *)
(***************************************************************************)
\* Equality of two quotients with positive denominators.
QEq(x, y) == x.d > 0 /\ y.d > 0 /\ x.n * y.d = y.n * x.d

\* ta + (p - a) * (tb - ta) / (b - a) as a quotient.
Lerp(a, ta, b, tb, p) ==
  [n |-> ta.n * tb.d * (b - a) + (p - a) * (tb.n * ta.d - ta.n * tb.d),
   d |-> ta.d * tb.d * (b - a)]

\* C13: every target frame whose start p lies strictly between two consecutive
\* reference-frame starts a < p < b, with reference times ta and tb, is assigned
\* ta + (p - a) * (tb - ta) / (b - a); references at 0, 100, 200 with times 0, 1, 2
\* and a target at 150 give 1.5.
C13_LinearBetweenReferences ==
  pc = "stamped" =>
    /\ Len(stamped) = Len(target_pos)
    /\ \A i \in 1..Len(target_pos) : \A j \in 1..(Len(ref_pos) - 1) :
          (ref_pos[j] < target_pos[i] /\ target_pos[i] < ref_pos[j + 1]) =>
            QEq(stamped[i], Lerp(ref_pos[j], ref_t_hrs[j], ref_pos[j + 1], ref_t_hrs[j + 1],
                                 target_pos[i]))
    /\ (chunks = StampExample /\ target_type = 5 /\ ref_type = 1
         /\ ref_t_hrs = <<Hours(0), Hours(1), Hours(2)>>) =>
          /\ ref_pos = <<0, 100, 200>>
          /\ target_pos = <<150>>
          /\ QEq(stamped[1], [n |-> 3, d |-> 2])

\* Witness of C13: the returned times for references at 0, 100, 200 and a target at 150.
C13_Witness ==
  /\ pc = "stamped"
  /\ chunks = StampExample
  /\ target_type = 5
  /\ ref_type = 1
  /\ ref_t_hrs = <<Hours(0), Hours(1), Hours(2)>>
  /\ target_pos = <<150>>

\* The loop of _stamp_by_position is over or the call has ended.
StampScanned == pc \in {"stamped", "raised"} \/ (pc = "stamp_scan" /\ ~(pos < StampEnd(data)))

\* The scan found no frame of the reference type or no frame of the target type.
AbsentType == ref_pos = << >> \/ target_pos = << >>

----------------------------------------------------------------------------
(***************************************************************************)
(* Properties of parse_rlf on a whole log (checked under SpecLog).         *)
(***************************************************************************)
\* x < y for two quotients whose denominators are multiples of 3,600,000.
QLessHours(x, y) ==
  /\ x.d > 0 /\ y.d > 0
  /\ x.d % HOUR_MS = 0 /\ y.d % HOUR_MS = 0
  /\ x.n * (y.d \div HOUR_MS) < y.n * (x.d \div HOUR_MS)

\* The decoded entries of the result: every key but '_raw' and '_summary'.
DecodedNames == {nm \in DOMAIN ret : ret[nm].kind \in {"decoded", "raw"}}

\* C15: a log of 3 Navigation, 3 clocked and 2 modem log frames with 5 stray bytes
\* between each pair of frames decodes to three records with the counts 3, 3 and 2, and
\* every inferred modem log time lies strictly between the first and the last
\* Navigation time.
C15_EndToEndCountsAndTimes ==
  pc # "raised" /\
  ((pc = "done" /\ decode) =>
    LET nav   == <<"Navigation">>
        ctd   == <<"Seabird CTD (SBE49)">>
        modem == <<"Acoustic Modem Log">>
    IN  /\ DecodedNames = {nav, ctd, modem}
        /\ \A nm \in DecodedNames : ret[nm].kind = "decoded"
        /\ ret[<<"_summary">>].val[nav].count = 3
        /\ ret[<<"_summary">>].val[ctd].count = 3
        /\ ret[<<"_summary">>].val[modem].count = 2
        /\ Len(ret[nav].val.t_hrs) = 3
        /\ Len(ret[ctd].val.t_hrs) = 3
        /\ Len(ret[modem].val.message) = 2
        /\ "t_hrs" \in DOMAIN ret[modem].val
        /\ Len(ret[modem].val.t_hrs) = 2
        /\ \A i \in 1..2 :
              /\ QLessHours(ret[nav].val.t_hrs[1], ret[modem].val.t_hrs[i])
              /\ QLessHours(ret[modem].val.t_hrs[i], ret[nav].val.t_hrs[3]))

----------------------------------------------------------------------------
(***************************************************************************)
(* Properties of parse_adc (checked under SpecAdc).                        *)
(***************************************************************************)
\* The ensemble at e has, among the sub-blocks its offset table lists, one whose type
\* tag is dt_id.
HasBlock(d, e, dt_id) ==
  \E j \in 0..(At(d, e + 5) - 1) :
    /\ CanUnpack(d, e + 6 + 2 * j, 2)
    /\ CanUnpack(d, e + U16(d, e + 6 + 2 * j), 2)
    /\ U16(d, e + U16(d, e + 6 + 2 * j)) = dt_id

\* The call of parse_adc has ended.
AdcEnded == pc \in {"adc_done", "raised"}

\* The call of parse_adc raised ValueError('No valid PD0 ensemble found').
NoEnsembleError == pc = "raised" /\ error = Raise("ValueError", "parse_adc")

\* C16: parse_adc fails with ValueError('No valid PD0 ensemble found') exactly when no
\* located ensemble contains a fixed-leader sub-block (also when no ensemble is located),
\* and then returns no dataset.
C16_ValueErrorIffNoFixedLeader ==
  AdcEnded =>
    /\ NoEnsembleError <=>
         (\A i \in 1..Len(ensembles) : ~HasBlock(data, ensembles[i], PD0_FIXED_LEADER))
    /\ NoEnsembleError => (ret = << >> /\ out = << >>)

\* arr has the shape [n][m][4].
HasShape(arr, n, m) ==
  /\ DOMAIN arr = 1..n
  /\ \A i \in 1..n :
        /\ DOMAIN arr[i] = 1..m
        /\ \A c \in 1..m : DOMAIN arr[i][c] = 1..4

\* Every cell of the row holds v.
RowIs(row, v) == \A c \in DOMAIN row : \A b \in DOMAIN row[c] : row[c][b] = v

\* The 10 x 4 velocities of the first ensemble of AdcExample.
ExampleVelocity == [c \in 1..10 |-> [b \in 1..4 |-> 10 * c + b]]

\* C17: the per-cell arrays returned by parse_adc have the shape
\* [n_ensembles][n_cells][4], n_ensembles the number of ensembles located in pass 1 and
\* n_cells the fixed leader's cell count; the velocity row of every ensemble with no
\* velocity sub-block holds -32768 throughout, and the absence raises no error.  For an
\* ensemble with cell count 10 and 10 x 4 velocities followed by one without a velocity
\* sub-block the array is [2][10][4] with row 2 all -32768.
C17_ShapeAndMissingVelocity ==
  /\ pc = "adc_done" =>
        /\ ret.n_ensembles = Len(ensembles)
        /\ ret.n_cells = ret.fixed_leader.n_cells
        /\ \A f \in {"velocity", "correlation", "echo_intensity", "percent_good"} :
              HasShape(ret[f], Len(ensembles), ret.n_cells)
        /\ \A i \in 1..Len(ensembles) :
              ~HasBlock(data, ensembles[i], PD0_VELOCITY) => RowIs(ret.velocity[i], -32768)
        /\ chunks = AdcExample =>
              /\ HasShape(ret.velocity, 2, 10)
              /\ ret.velocity[1] = ExampleVelocity
              /\ RowIs(ret.velocity[2], -32768)
  /\ (pc = "raised" /\ error.at = "_parse_velocity") =>
        HasBlock(data, ensembles[ei + 1], PD0_VELOCITY)
  /\ pc = "adc_fill" =>
        \A i \in 1..Len(ensembles) :
          (i > ei \/ ~HasBlock(data, ensembles[i], PD0_VELOCITY)) =>
            RowIs(out.velocity[i], -32768)

\* Witness of C17: the output for an ensemble with cell count 10 and 10 x 4 velocities
\* followed by an ensemble with no velocity sub-block.
C17_Witness ==
  /\ pc = "adc_done"
  /\ chunks = AdcExample
  /\ Len(ensembles) = 2
  /\ ~HasBlock(data, ensembles[2], PD0_VELOCITY)

\* The fields of the output fed by the variable leader.
LeaderFields == LeaderInts \cup LeaderFloats

\* C18: at every row whose ensemble lacks a sub-block type, the fields fed by that type
\* hold a fixed default: -32768 for velocity and bottom-track velocity, 0 for
\* correlation, echo intensity, percent-good and bottom-track range, and for the
\* variable-leader fields a value that is the same whatever the allocation left in
\* memory.
C18_MissingBlocksKeepDefaults ==
  pc = "adc_done" =>
    \A i \in 1..Len(ensembles) :
      /\ ~HasBlock(data, ensembles[i], PD0_VELOCITY) => RowIs(ret.velocity[i], -32768)
      /\ ~HasBlock(data, ensembles[i], PD0_CORRELATION) => RowIs(ret.correlation[i], 0)
      /\ ~HasBlock(data, ensembles[i], PD0_ECHO_INTENSITY) => RowIs(ret.echo_intensity[i], 0)
      /\ ~HasBlock(data, ensembles[i], PD0_PERCENT_GOOD) => RowIs(ret.percent_good[i], 0)
      /\ ~HasBlock(data, ensembles[i], PD0_BOTTOM_TRACK) =>
            /\ \A b \in 1..4 : ret.bt_range_cm[i][b] = 0
            /\ \A b \in 1..4 : ret.bt_velocity_mms[i][b] = -32768
      /\ ~HasBlock(data, ensembles[i], PD0_VARIABLE_LEADER) =>
            \A h \in Uninitialised : \A mode \in StoreModes :
              parse_adc(data, h, mode).error = NoError =>
                \A f \in LeaderFields : parse_adc(data, h, mode).out[f][i] = ret[f][i]

\* The fixed leader decoded from the first sub-block of type PD0_FIXED_LEADER of the
\* first located ensemble that has one.
FirstLeader ==
  LET I == {i \in 1..Len(ensembles) : HasBlock(data, ensembles[i], PD0_FIXED_LEADER)}
      e == ensembles[CHOOSE i \in I : \A x \in I : i <= x]
      J == {j \in 0..(At(data, e + 5) - 1) :
              /\ CanUnpack(data, e + 6 + 2 * j, 2)
              /\ CanUnpack(data, e + U16(data, e + 6 + 2 * j), 2)
              /\ U16(data, e + U16(data, e + 6 + 2 * j)) = PD0_FIXED_LEADER}
      j0 == CHOOSE j \in J : \A x \in J : j <= x
  IN  _parse_fixed_leader(data, e + U16(data, e + 6 + 2 * j0)).value

\* C19: the fixed leader, and with it the cell count, is decoded once, from the first
\* ensemble that has a fixed-leader sub-block: once set it never changes, pass 2 leaves
\* the output's n_cells and fixed_leader as allocated and sizes every row by that one
\* cell count, so the returned values do not depend on the fixed leaders of later
\* ensembles.
C19_LeaderDecodedOnce ==
  /\ [](fixed_leader # NoLeader => fixed_leader = FirstLeader)
  /\ []((pc \in {"adc_fill", "adc_done"}) =>
          /\ out.fixed_leader = FirstLeader
          /\ out.n_cells = FirstLeader.n_cells
          /\ \A i \in 1..Len(ensembles) : DOMAIN out.velocity[i] = 1..FirstLeader.n_cells)
  /\ [](pc = "adc_done" => (ret.fixed_leader = FirstLeader /\ ret.n_cells = FirstLeader.n_cells))
  /\ [][fixed_leader # NoLeader => fixed_leader' = fixed_leader]_vars
  /\ [][pc = "adc_fill" => (out'.n_cells = out.n_cells /\ out'.fixed_leader = out.fixed_leader)]_vars

\* Witness of C19: a returned dataset for a file whose second ensemble has a fixed
\* leader with another cell count than the first.
C19_Witness ==
  /\ pc = "adc_done"
  /\ Len(ensembles) >= 2
  /\ HasBlock(data, ensembles[1], PD0_FIXED_LEADER)
  /\ \E i \in 2..Len(ensembles) :
        /\ HasBlock(data, ensembles[i], PD0_FIXED_LEADER)
        /\ WalkLeader(data, ensembles[i], 0, At(data, ensembles[i] + 5)).value.n_cells
             # ret.n_cells

----------------------------------------------------------------------------
(***************************************************************************)
(* Properties of the sentinel masking (checked under SpecSentinel).        *)
(***************************************************************************)
\* parse_rlf returned the decoded records of type t.
Returned(t) == pc = "done" /\ decode /\ RecordName(t) \in DOMAIN ret

IsZero64(x) == x.e = 0 /\ x.m = <<0, 0, 0>>

\* C20: a field with a declared sentinel decodes to the missing marker exactly when its
\* raw value is the sentinel: -32.768 for the sidescan altitude, depth and temperature,
\* -1.0 for the Nav/Acoustic DVL heading and DVL sound speed, 0 for the Nav/Acoustic
\* latitude and longitude.
C20_MissingIffSentinel ==
  /\ Returned(REC_SIDESCAN) =>
       LET v == ret[RecordName(REC_SIDESCAN)].val
           p == records[REC_SIDESCAN]
       IN  \A i \in DOMAIN p :
             /\ IsNaN32(v.altitude[i]) <=> F32(p[i], 8) = SIDESCAN_SENTINEL
             /\ IsNaN32(v.depth[i]) <=> F32(p[i], 12) = SIDESCAN_SENTINEL
             /\ IsNaN32(v.temperature[i]) <=> F32(p[i], 32) = SIDESCAN_SENTINEL
  /\ Returned(REC_NAV_ACOUSTIC) =>
       LET v == ret[RecordName(REC_NAV_ACOUSTIC)].val
           p == records[REC_NAV_ACOUSTIC]
       IN  \A i \in DOMAIN p :
             /\ IsNaN32(v.heading_dvl[i]) <=> F32(p[i], 8) = BAD
             /\ IsNaN32(v.sound_speed_dvl[i]) <=> F32(p[i], 12) = BAD
             /\ IsNaN64(v.lat[i]) <=> IsZero64(F64(p[i], 24))
             /\ IsNaN64(v.lon[i]) <=> IsZero64(F64(p[i], 32))

----------------------------------------------------------------------------
(***************************************************************************)
(* Properties of the static tables (checked under SpecTables).             *)
(***************************************************************************)
\* The elements of a list.
Range(s) == {s[i] : i \in DOMAIN s}

\* No element of the list occurs twice.
NoRepeat(s) == \A i, j \in DOMAIN s : i # j => s[i] # s[j]

\* The entries <<key, content>> of a decoded dict.
Pairs(f) == {<<x, f[x]>> : x \in DOMAIN f}

\* C21: each static table (Data Channels, ECO Calibration, Sensor Names, Sensor Types,
\* Mission Modes) decodes to its records deduplicated by (key, content): no entry
\* occurs twice, so a record logged k times gives one entry, and every record's
\* (key, content) is an entry, so two records with one key and different content are
\* both there.  An empty sensor name counts as no record.
C21_TablesDeduplicated ==
  /\ Returned(REC_DATA_CHANNELS) =>
       LET v == ret[RecordName(REC_DATA_CHANNELS)].val
           p == records[REC_DATA_CHANNELS]
       IN  NoRepeat(v) /\ Range(v) = {DataChannel(p[i]) : i \in DOMAIN p}
  /\ Returned(REC_ECO_CAL) =>
       LET v == ret[RecordName(REC_ECO_CAL)].val
           p == records[REC_ECO_CAL]
       IN  NoRepeat(v) /\ Range(v) = {EcoChannel(p[i]) : i \in DOMAIN p}
  /\ Returned(REC_SENSOR_NAMES) =>
       LET v == ret[RecordName(REC_SENSOR_NAMES)].val
           p == records[REC_SENSOR_NAMES]
       IN  NoRepeat(v) /\ Range(v) = {Text(p[i], 0, 11) : i \in DOMAIN p} \ {<< >>}
  /\ Returned(REC_SENSOR_TYPES) =>
       LET v == ret[RecordName(REC_SENSOR_TYPES)].val
           p == records[REC_SENSOR_TYPES]
       IN  Pairs(v) = {<<At(p[i], 0), Text(p[i], 1, 12)>> : i \in DOMAIN p}
  /\ Returned(REC_MISSION_MODES) =>
       LET v == ret[RecordName(REC_MISSION_MODES)].val
           p == records[REC_MISSION_MODES]
       IN  Pairs(v) = {<<At(p[i], 0), Text(p[i], 4, Len(p[i]))>> : i \in DOMAIN p}

----------------------------------------------------------------------------
(***************************************************************************)
(* Properties of the scans of parse_adc (checked under SpecAdc).           *)
(***************************************************************************)
\* An ensemble marker lies at p and the length declared behind it runs past the end of
\* the buffer.
TruncatedAt(d, p) ==
  /\ p + 6 < Len(d)
  /\ At(d, p) = 127 /\ At(d, p + 1) = 127
  /\ p + U16(d, p + 2) + 2 > Len(d)

\* Pass 1 of parse_adc ended without raising.
PassOneEnded ==
  \/ pc \in {"adc_scanned", "adc_fill", "adc_done"}
  \/ pc = "adc_scan" /\ ~AdcScanning(data, pos)
  \/ NoEnsembleError
  \/ pc = "raised" /\ out # << >>

\* C22: pass 1 of parse_adc steps one byte over a marker 7F 7F whose declared length
\* runs past the end of the buffer and goes on scanning, so that every complete
\* ensemble that begins after such a marker is located.
C22_TruncatedMarkerSkipped ==
  /\ [][(pc = "adc_scan" /\ TruncatedAt(data, pos)) =>
          (pc' = "adc_scan" /\ pos' = pos + 1 /\ ensembles' = ensembles)]_vars
  /\ [](PassOneEnded =>
          \A i \in 1..Len(chunks) :
            (/\ chunks[i].kind = "ensemble"
             /\ \E j \in 1..(i - 1) : TruncatedAt(data, ChunkStart(j)))
            => ChunkStart(i) \in Range(ensembles))

\* Offset in d of the last sub-block of type dt_id that the offset table of the
\* ensemble at e lists.
LastBlock(d, e, dt_id) ==
  LET J == {j \in 0..(At(d, e + 5) - 1) :
              /\ CanUnpack(d, e + 6 + 2 * j, 2)
              /\ CanUnpack(d, e + U16(d, e + 6 + 2 * j), 2)
              /\ U16(d, e + U16(d, e + 6 + 2 * j)) = dt_id}
  IN  e + U16(d, e + 6 + 2 * (CHOOSE j \in J : \A x \in J : x <= j))

\* The two bytes at off as a signed 16-bit number.
Raw16(d, off) ==
  IF At(d, off + 1) >= 128 THEN At(d, off) + 256 * At(d, off + 1) - 65536
  ELSE At(d, off) + 256 * At(d, off + 1)

\* The raw velocity of ensemble i at cell c, beam b, and its raw bottom-track velocity
\* and range at beam b.
RawVelocity(i, c, b) ==
  Raw16(data, LastBlock(data, ensembles[i], PD0_VELOCITY) + 2 + ((c - 1) * 4 + (b - 1)) * 2)

RawBtVelocity(i, b) ==
  Raw16(data, LastBlock(data, ensembles[i], PD0_BOTTOM_TRACK) + 24 + 2 * (b - 1))

RawBtRange(i, b) == U16(data, LastBlock(data, ensembles[i], PD0_BOTTOM_TRACK) + 16 + 2 * (b - 1))

----------------------------------------------------------------------------
(***************************************************************************)
(* Properties of the three scans (checked under SpecScanners).             *)
(***************************************************************************)
\* A scan loop is running.
Scanning == pc \in {"scan", "stamp_scan", "adc_scan"}

\* C24: the scans terminate.  Every iteration of the loop of parse_raw_records and of
\* _stamp_by_position moves the cursor forward, by 1 or by 8 + payload length on a
\* frame, or raises; every iteration of pass 1 of parse_adc moves it forward, by 1 or by
\* the declared length + 2 >= 2 on an accepted ensemble, or leaves the loop; and every
\* call leaves its scan loop.
C24_ScansTerminate ==
  /\ [][(pc = "scan" /\ pos < ScanEnd(data)) =>
          \/ pc' = "raised"
          \/ pos' = pos + 1 /\ emitted' = emitted
          \/ /\ Len(emitted') = Len(emitted) + 1
             /\ pos' = pos + 8 + emitted'[Len(emitted')].plen]_vars
  /\ [][(pc = "stamp_scan" /\ pos < StampEnd(data)) =>
          \/ pc' = "raised"
          \/ pos' = pos + 1
          \/ pos' = pos + 8 + U16(data, pos + 6)]_vars
  /\ [][(pc = "adc_scan" /\ AdcScanning(data, pos)) =>
          \/ pc' \in {"raised", "adc_scanned"}
          \/ pos' = pos + 1 /\ ensembles' = ensembles
          \/ /\ ensembles' = Append(ensembles, pos)
             /\ pos' = pos + U16(data, pos + 2) + 2
             /\ pos' >= pos + 2]_vars
  /\ [][Scanning' => (Scanning /\ pos' > pos)]_vars
  /\ <>(~Scanning)

\* Witness of C24: pass 1 of parse_adc has ended after stepping over stray bytes and
\* accepting an ensemble whose declared length is 0.
C24_Witness ==
  /\ pc = "adc_fill"
  /\ Len(ensembles) = 2
  /\ U16(data, ensembles[1] + 2) = 0
  /\ ensembles[2] > ensembles[1] + 2
  /\ pos >= Len(data) - 6

\* C25: the frames emitted by parse_raw_records lie inside the buffer, in strictly
\* increasing start offset, none overlapping another; every ensemble located by pass 1
\* of parse_adc ends inside the buffer and begins at or after the end of the one located
\* before it.
C25_FramesAndEnsemblesDisjoint ==
  /\ \A i \in DOMAIN emitted :
       /\ 0 <= emitted[i].start
       /\ emitted[i].start + 8 + U16(data, emitted[i].start + 6) <= Len(data)
       /\ emitted[i].plen = U16(data, emitted[i].start + 6)
  /\ \A i, j \in DOMAIN emitted :
       i < j => emitted[i].start + 8 + U16(data, emitted[i].start + 6) <= emitted[j].start
  /\ \A i \in DOMAIN ensembles :
       /\ 0 <= ensembles[i]
       /\ ensembles[i] + U16(data, ensembles[i] + 2) + 2 <= Len(data)
  /\ \A i, j \in DOMAIN ensembles :
       i < j => ensembles[i] + U16(data, ensembles[i] + 2) + 2 <= ensembles[j]

\* Witness of C25: parse_raw_records has emitted two frames from a buffer that holds a
\* marker which starts no emitted frame.
C25_Witness ==
  /\ pc = "done"
  /\ Len(emitted) = 2
  /\ \E p \in 0..(Len(data) - 2) :
       /\ At(data, p) = MAGIC[1] /\ At(data, p + 1) = MAGIC[2]
       /\ \A i \in DOMAIN emitted : emitted[i].start # p

----------------------------------------------------------------------------
(***************************************************************************)
(* Properties of the re-scan (checked under SpecRescan).                   *)
(***************************************************************************)
\* parse_raw_records has returned.
RawScanned ==
  \/ pc \in {"dispatch", "finish", "done"}
  \/ pc = "raised" /\ error.at # "parse_raw_records"

\* The start offsets of the emitted frames of type t, in file order.
StartsOf(t) ==
  LET sel == SelectSeq(emitted, LAMBDA f : f.rtype = t)
  IN  [i \in 1..Len(sel) |-> sel[i].start]

\* The loop of _stamp_by_position run on the buffer for a target and a reference type.
Rescan(tt, rt) ==
  StampFrom(data, [pos |-> 0, ref_pos |-> << >>, target_pos |-> << >>, error |-> NoError],
            tt, rt)

\* C26: the re-scan of _stamp_by_position finds the frames parse_raw_records found: for
\* a target and a reference type, the k-th offset of a type is the start of the frame
\* that gave the k-th payload of that type, as many offsets as payloads; so in
\* parse_rlf np.interp gets as many reference offsets as reference times and the modem
\* log gets one inferred time per message.
C26_RescanFindsSameFrames ==
  /\ RawScanned =>
       \A tt, rt \in DOMAIN records :
         tt # rt =>
           /\ Rescan(tt, rt).error = NoError
           /\ Rescan(tt, rt).target_pos = StartsOf(tt)
           /\ Rescan(tt, rt).ref_pos = StartsOf(rt)
           /\ Len(StartsOf(tt)) = Len(records[tt])
           /\ Len(StartsOf(rt)) = Len(records[rt])
           /\ \A n \in DOMAIN records[tt] :
                records[tt][n] =
                  Slice(data, StartsOf(tt)[n] + 8,
                        StartsOf(tt)[n] + 8 + U16(data, StartsOf(tt)[n] + 6))
  /\ pc = "raised" => error.at # "_stamp_by_position"
  /\ (pc = "done" /\ decode /\ <<"Navigation">> \in DOMAIN ret
        /\ <<"Acoustic Modem Log">> \in DOMAIN ret) =>
       /\ "t_hrs" \in DOMAIN ret[<<"Acoustic Modem Log">>].val
       /\ Len(ret[<<"Acoustic Modem Log">>].val.t_hrs)
            = Len(ret[<<"Acoustic Modem Log">>].val.message)
       /\ Len(ret[<<"Navigation">>].val.t_hrs) = Len(StartsOf(REC_NAV))

\* Witness of C26: parse_rlf has stamped the modem log of a buffer that holds a marker
\* inside a frame or between frames.
C26_Witness ==
  /\ pc = "done" /\ decode
  /\ <<"Navigation">> \in DOMAIN ret
  /\ <<"Acoustic Modem Log">> \in DOMAIN ret
  /\ Len(ret[<<"Acoustic Modem Log">>].val.t_hrs) >= 1
  /\ \E p \in 0..(Len(data) - 2) :
       /\ At(data, p) = MAGIC[1] /\ At(data, p + 1) = MAGIC[2]
       /\ \A i \in DOMAIN emitted : emitted[i].start # p

----------------------------------------------------------------------------
(***************************************************************************)
(* Properties of the inferred times (checked under SpecStamp).             *)
(***************************************************************************)
\* x <= y for two quotients.
QLeq(x, y) == x.d > 0 /\ y.d > 0 /\ x.n * y.d <= y.n * x.d

\* The sequence of quotients s never decreases.
NonDecreasing(s) == \A i \in 1..(Len(s) - 1) : QLeq(s[i], s[i + 1])

\* C27: with one non-decreasing reference time per reference frame, the inferred times
\* never decrease along the target frames and lie between the first and the last
\* reference time; a target frame before the first reference frame gets the first
\* reference time and one after the last reference frame gets the last one.
C27_StampedWithinReferenceTimes ==
  (pc = "stamped" /\ Len(ref_t_hrs) = Len(ref_pos) /\ NonDecreasing(ref_t_hrs)) =>
    /\ Len(stamped) = Len(target_pos)
    /\ NonDecreasing(stamped)
    /\ ref_pos # << >> =>
         \A i \in DOMAIN stamped :
           /\ QLeq(ref_t_hrs[1], stamped[i])
           /\ QLeq(stamped[i], ref_t_hrs[Len(ref_t_hrs)])
           /\ target_pos[i] < ref_pos[1] => QEq(stamped[i], ref_t_hrs[1])
           /\ target_pos[i] > ref_pos[Len(ref_pos)] =>
                QEq(stamped[i], ref_t_hrs[Len(ref_t_hrs)])

\* Witness of C27: target frames before, between and after two reference frames whose
\* times increase.
C27_Witness ==
  /\ pc = "stamped"
  /\ Len(ref_pos) = 2 /\ Len(ref_t_hrs) = 2
  /\ ~QLeq(ref_t_hrs[2], ref_t_hrs[1])
  /\ \E i, j, m \in DOMAIN stamped :
       /\ target_pos[i] < ref_pos[1]
       /\ ref_pos[1] < target_pos[j] /\ target_pos[j] < ref_pos[2]
       /\ ref_pos[2] < target_pos[m]
       /\ ~QLeq(stamped[j], stamped[i])
       /\ ~QLeq(stamped[m], stamped[j])

----------------------------------------------------------------------------
(***************************************************************************)
(* The bytes parse_adc reads for one ensemble (checked under SpecAdc).     *)
(***************************************************************************)
\* The ensemble's own bytes: [start, start + declared length + 2).
OwnRange(e) == e..(e + U16(data, e + 2) + 1)

\* The bytes of the reads listed as <<offset from o, width, exception>>.
ReadsAt(o, reads) ==
  UNION {(o + reads[i][1])..(o + reads[i][1] + reads[i][2] - 1) : i \in DOMAIN reads}

\* The bytes the decoder of a sub-block of type dt_id at abs_off reads in pass 2.
BlockReads(abs_off, dt_id, n_cells) ==
  CASE dt_id = PD0_VARIABLE_LEADER -> ReadsAt(abs_off, VariableLeaderReads)
    [] dt_id = PD0_VELOCITY -> (abs_off + 2)..(abs_off + 1 + 8 * n_cells)
    [] dt_id \in {PD0_ECHO_INTENSITY, PD0_CORRELATION, PD0_PERCENT_GOOD} ->
         (abs_off + 2)..(abs_off + 1 + 4 * n_cells)
    [] dt_id = PD0_BOTTOM_TRACK -> ReadsAt(abs_off, BottomTrackReads)
    [] OTHER -> {}

\* The bytes pass 2 has read for the ensemble at e once its row is filled: the sub-block
\* count, the offset table, each sub-block's type and what its decoder reads.
PassTwoReads(e) ==
  {e + 5} \cup
  UNION {LET abs_off == e + U16(data, e + 6 + 2 * j)
         IN  (e + 6 + 2 * j)..(e + 7 + 2 * j) \cup abs_off..(abs_off + 1)
             \cup BlockReads(abs_off, U16(data, abs_off), out.n_cells)
         : j \in 0..(At(data, e + 5) - 1)}

\* The bytes pass 1 has read to decode the fixed leader of the ensemble at e.
PassOneLeaderReads(e) ==
  LET J == {j \in 0..(At(data, e + 5) - 1) :
              U16(data, e + U16(data, e + 6 + 2 * j)) = PD0_FIXED_LEADER}
      j0 == CHOOSE j \in J : \A x \in J : j <= x
  IN  ReadsAt(e + U16(data, e + 6 + 2 * j0), FixedLeaderReads)

\* C28: every byte parse_adc reads while walking an ensemble's offset table and decoding
\* its sub-blocks, in both passes, lies inside that ensemble's own bytes, and no such
\* read raises an out-of-range error.
C28_ReadsInsideEnsemble ==
  /\ pc = "raised" => error.kind \notin {"struct.error", "IndexError"}
  /\ pc \in {"adc_fill", "adc_done"} =>
       /\ \A i \in 1..ei : PassTwoReads(ensembles[i]) \subseteq OwnRange(ensembles[i])
       /\ \A i \in 1..ei :
            (/\ HasBlock(data, ensembles[i], PD0_FIXED_LEADER)
             /\ \A x \in 1..(i - 1) : ~HasBlock(data, ensembles[x], PD0_FIXED_LEADER))
            => PassOneLeaderReads(ensembles[i]) \subseteq OwnRange(ensembles[i])

----------------------------------------------------------------------------
(***************************************************************************)
(* The stored variable-leader fields (checked under SpecAdc).              *)
(***************************************************************************)
\* The offset of the variable leader that fills row i.
LeaderAt(i) == LastBlock(data, ensembles[i], PD0_VARIABLE_LEADER)

\* C29: every stored variable-leader field equals the value decoded from the bytes,
\* with no wrap-around or overflow: ensemble_number is the low 16 bits plus 65536 times
\* the high byte, the six clock fields are their raw bytes 0..255 and salinity is its
\* raw unsigned 16-bit value.
C29_LeaderFieldsStoredExactly ==
  /\ pc = "raised" => error.kind # "OverflowError"
  /\ pc \in {"adc_fill", "adc_done"} =>
       \A i \in 1..ei :
         HasBlock(data, ensembles[i], PD0_VARIABLE_LEADER) =>
           /\ out.ensemble_number[i]
                = At(data, LeaderAt(i) + 2) + 256 * At(data, LeaderAt(i) + 3)
                  + 65536 * At(data, LeaderAt(i) + 11)
           /\ out.ensemble_number[i] \in 0..(2 ^ 24 - 1)
           /\ out.month[i] = At(data, LeaderAt(i) + 5)
           /\ out.day[i] = At(data, LeaderAt(i) + 6)
           /\ out.hour[i] = At(data, LeaderAt(i) + 7)
           /\ out.minute[i] = At(data, LeaderAt(i) + 8)
           /\ out.second[i] = At(data, LeaderAt(i) + 9)
           /\ out.hundredths[i] = At(data, LeaderAt(i) + 10)
           /\ out.salinity[i] = At(data, LeaderAt(i) + 24) + 256 * At(data, LeaderAt(i) + 25)

----------------------------------------------------------------------------
(***************************************************************************)
(* The registry and the naming table (checked under Spec).                 *)
(***************************************************************************)
\* The 16-bit type codes.
TypeCodes == 0..65535

\* The keys parse_rlf adds after the loop.
ReservedNames == {<<"_raw">>, <<"_summary">>}

\* The type code spelled by a synthesized name 'Unknown_0x....'.
CodeOfUnknown(nm) == IF Len(nm) = 5 THEN TypeOfHex(nm) ELSE -1

\* C30: a type code has a decoder exactly when it has a name; the names of distinct
\* type codes, registered or synthesized, are distinct and are neither '_raw' nor
\* '_summary'; so in parse_rlf every type keeps its own entry in the result and in the
\* summary, and an entry is a raw payload list exactly when its type has no decoder.
\* The facts about the tables alone are evaluated once, at the start of the call on the
\* empty buffer.
C30_RegistryAndNamesAgree ==
  /\ (data = << >> /\ pc = "scan" /\ decode) =>
       /\ DOMAIN _DECODERS = DOMAIN RECORD_NAMES
       /\ DOMAIN RECORD_NAMES \subseteq TypeCodes
       /\ \A a, b \in DOMAIN RECORD_NAMES : a # b => RECORD_NAMES[a] # RECORD_NAMES[b]
       /\ \A a \in TypeCodes :
            /\ RecordName(a) \notin ReservedNames
            /\ a \notin DOMAIN RECORD_NAMES =>
                 /\ CodeOfUnknown(RecordName(a)) = a
                 /\ \A b \in DOMAIN RECORD_NAMES : RecordName(a) # RECORD_NAMES[b]
  /\ (pc = "done" /\ decode) =>
       /\ Cardinality(DOMAIN ret) = Cardinality(DOMAIN records) + 2
       /\ Cardinality(DOMAIN ret[<<"_summary">>].val) = Cardinality(DOMAIN records)
       /\ ret[<<"_raw">>].kind = "index"
       /\ ret[<<"_summary">>].kind = "summary"
       /\ \A t \in DOMAIN records :
            /\ RecordName(t) \in DOMAIN ret
            /\ RecordName(t) \in DOMAIN ret[<<"_summary">>].val
            /\ TypeOfHex(ret[<<"_summary">>].val[RecordName(t)].type_hex) = t
            /\ ret[<<"_summary">>].val[RecordName(t)].count = Len(records[t])
            /\ ret[RecordName(t)].kind = "raw" <=> t \notin DOMAIN _DECODERS
            /\ ret[RecordName(t)].kind = "decoded" <=> t \in DOMAIN _DECODERS
            /\ ret[RecordName(t)].kind = "raw" => ret[RecordName(t)].val = records[t]

\* Witness of C30: a returned result with entries of two unregistered types and of a
\* registered one.
C30_Witness ==
  /\ pc = "done"
  /\ decode
  /\ Cardinality(DOMAIN records) = 3
  /\ Cardinality({t \in DOMAIN records : t \in DOMAIN _DECODERS}) = 1
  /\ \A t \in DOMAIN records : RecordName(t) \in DOMAIN ret

====
